---- MODULE Spec2Model ----
(***************************************************************************)
(* Verification model of thor-cluster: the velocity-grid cluster search    *)
(* (src/src/gridsearch.rs), the DBSCAN primitive (src/src/dbscan.rs), the  *)
(* Hotspot2D primitive (src/src/hotspot2d.rs), the clustering facade and   *)
(* the result assembler of grid_search (src/src/lib.rs), and the cell      *)
(* search (src/src/cellsearch.rs).                                         *)
(*                                                                         *)
(* Coordinates, times, velocities and eps are integers, so every f64/f32   *)
(* operation of the code is exact.  Vectors are 1-based sequences; the     *)
(* code's 0-based index i is position i+1.                                 *)
(*                                                                         *)
(* The specifications share the variables:                                 *)
(*   Spec        the grid search driver followed by the assembler          *)
(*   FairSpec    Spec on fewer inputs, with fair scheduling of the threads *)
(*   SpecDbscan  the DBSCAN primitive, one loop iteration per step, with   *)
(*               the order of every neighbourhood query result left open   *)
(*   SpecCluster the facade find_clusters applied to bounded point sets    *)
(*   SpecHotspot find_clusters with Hotspot2D on points of one line        *)
(*   SpecEntry   grid_search from its entry, with its four input columns   *)
(*   SpecChunk   work_chunk_size applied to bounded arguments              *)
(*   FairSpecDbscan  SpecDbscan on at most three points, every step taken  *)
(*   SpecPar     Spec with up to MaxParThreads threads on one observation  *)
(*   SpecVelocity      apply_velocity applied to bounded arguments         *)
(*   SpecHotspotSteps  find_clusters_hotspot2d statement by statement      *)
(*   SpecIndex   one neighbourhood query on an index built by from_points  *)
(*   SpecCell    a ThorCell filled by add_point/add_points, searched once  *)
(***************************************************************************)
EXTENDS Integers, Sequences, FiniteSets, TLC

\* ------------------------------------------------------------------ bounds
MaxThreads == 2
MaxVx == 2
MaxVy == 2
MaxObs == 2
MaxDbPts == 3
MaxDbCoord == 2
MaxClPts == 3
MaxEnLen == 2
MaxHsPts == 4
MaxWcThreads == 8
MaxWcN == 16
MaxParThreads == 3
MaxAvPts == 2
MaxIxNear == 1
MaxIxSmall == 6
MaxTcPts == 3
MaxTcDt == 2

\* ----------------------------------------------------------------- helpers
Range(s) == {s[i] : i \in 1..Len(s)}

SeqsUpTo(S, n) == UNION {[1..k -> S] : k \in 0..n}

Max(S) == CHOOSE m \in S : \A o \in S : o <= m

Min(S) == CHOOSE m \in S : \A o \in S : m <= o

\* the elements of a set of integers as an increasing sequence
RECURSIVE SortedSeq(_)
SortedSeq(S) == IF S = {} THEN <<>> ELSE <<Min(S)>> \o SortedSeq(S \ {Min(S)})

\* all orders in which the elements of S can be listed
Perms(S) == {p \in [1..Cardinality(S) -> S] : Range(p) = S}

XYPoint(x, y) == [x |-> x, y |-> y]

XYTPoint(x, y, t) == [x |-> x, y |-> y, t |-> t]

AlgTags == {"DBSCAN", "Hotspot2D", "DbscanRStar", "DbscanFixed16"}

DbscanTags == {"DBSCAN", "DbscanRStar", "DbscanFixed16"}

\* ---------------------------------------------------------- spatial index
squared_euclidean(p, q) == (p.x - q.x) * (p.x - q.x) + (p.y - q.y) * (p.y - q.y)

\* the index stored with a point is its input position cast to the index
\* type of the tree: u16 in the f32 kd-tree and the R*-tree; u32 in the
\* fixed-point kd-tree, which keeps every position the model can hold
IndexCast(alg, i) == IF alg = "DbscanFixed16" THEN i ELSE i % 65536

\* FixedU16<U14> holds values of [0, 4); from_num panics outside of it
FixedRangeOk(v) == v >= 0 /\ v < 4

\* a variant of InRadius that does not report the queried point itself
InRadiusOthersOnly(alg, d2, eps) ==
    d2 > 0 /\ (IF alg = "DbscanRStar" THEN d2 <= eps ELSE d2 < eps)

\* Is a stored point at squared distance d2 reported for radius eps?
\* kiddo's within_unsorted is strict, rstar's locate_within_distance is
\* inclusive.
InRadius(alg, d2, eps) == IF alg = "DbscanRStar" THEN d2 <= eps ELSE d2 < eps

\* a variant of neighbors that reports every stored point
neighborsAll(alg, points, q, eps) == {IndexCast(alg, j - 1) + 1 : j \in 1..Len(points)}

\* The set of stored indices a neighbourhood query of q returns.
neighbors(alg, points, q, eps) ==
    {IndexCast(alg, j - 1) + 1 : j \in {i \in 1..Len(points) :
                                     InRadius(alg, squared_euclidean(points[i], q), eps)}}

\* Does building or querying the index panic?
IndexPanics(alg, points, eps) ==
    /\ alg = "DbscanFixed16"
    /\ \/ (points # <<>> /\ ~FixedRangeOk(eps))
       \/ \E i \in 1..Len(points) : ~FixedRangeOk(points[i].x) \/ ~FixedRangeOk(points[i].y)

\* ------------------------------------------------------------------ DBSCAN
Undefined == [c |-> "Undefined", k |-> 0]

Noise == [c |-> "Noise", k |-> 0]

Border(k) == [c |-> "Border", k |-> k]

Core(k) == [c |-> "Core", k |-> k]

\* a variant of PopNeighbor that queries the neighbourhood of the first Core
\* point of the open cluster instead of the popped one
PopNeighborQueryCore(alg, points, labels, k, n, eps, min_cluster_size) ==
    LET upgraded == IF labels[n] = Noise THEN [labels EXCEPT ![n] = Border(k)] ELSE labels
        skip == labels[n] # Noise /\ labels[n] # Undefined
        first == Min({m \in 1..Len(points) : labels[m] = Core(k)})
        neighbors_of_neighbor == neighbors(alg, points, points[first], eps)
    IN  IF skip THEN [labels |-> labels, ext |-> {}]
        ELSE IF Cardinality(neighbors_of_neighbor) >= min_cluster_size
             THEN [labels |-> [upgraded EXCEPT ![n] = Core(k)], ext |-> neighbors_of_neighbor]
             ELSE [labels |-> upgraded, ext |-> {}]

\* a variant of PopNeighbor that expands a popped Noise point like a Core one
PopNeighborExpandNoise(alg, points, labels, k, n, eps, min_cluster_size) ==
    LET skip == labels[n] # Noise /\ labels[n] # Undefined
        neighbors_of_neighbor == neighbors(alg, points, points[n], eps)
    IN  IF skip THEN [labels |-> labels, ext |-> {}]
        ELSE IF labels[n] = Noise
                \/ Cardinality(neighbors_of_neighbor) >= min_cluster_size
             THEN [labels |-> [labels EXCEPT ![n] = Core(k)], ext |-> neighbors_of_neighbor]
             ELSE [labels |-> labels, ext |-> {}]

\* a variant of PopNeighbor in which a popped Noise point is made Core
PopNeighborNoiseToCore(alg, points, labels, k, n, eps, min_cluster_size) ==
    LET skip == labels[n] # Noise /\ labels[n] # Undefined
        neighbors_of_neighbor == neighbors(alg, points, points[n], eps)
    IN  IF skip THEN [labels |-> labels, ext |-> {}]
        ELSE IF labels[n] = Noise THEN [labels |-> [labels EXCEPT ![n] = Core(k)], ext |-> {}]
        ELSE IF Cardinality(neighbors_of_neighbor) >= min_cluster_size
             THEN [labels |-> [labels EXCEPT ![n] = Core(k)], ext |-> neighbors_of_neighbor]
             ELSE [labels |-> labels, ext |-> {}]

\* One iteration of the expansion loop for the popped index n while cluster k
\* is open: the new labels and the set of indices appended to the queue.
PopNeighbor(alg, points, labels, k, n, eps, min_cluster_size) ==
    LET upgraded == IF labels[n] = Noise THEN [labels EXCEPT ![n] = Border(k)] ELSE labels
        skip == labels[n] # Noise /\ labels[n] # Undefined
        neighbors_of_neighbor == neighbors(alg, points, points[n], eps)
    IN  IF skip THEN [labels |-> labels, ext |-> {}]
        ELSE IF Cardinality(neighbors_of_neighbor) >= min_cluster_size
             THEN [labels |-> [upgraded EXCEPT ![n] = Core(k)], ext |-> neighbors_of_neighbor]
             ELSE [labels |-> upgraded, ext |-> {}]

\* The head of the scan loop for input position i: what the point becomes.
ScanKind(alg, points, labels, i, eps, min_cluster_size) ==
    IF labels[i] # Undefined THEN "visited"
    ELSE IF Cardinality(neighbors(alg, points, points[i], eps)) < min_cluster_size THEN "noise"
    ELSE "seed"

\* a variant of NextClusterIdx that leaves out every other id
NextClusterIdxSkip(cluster_idx) == (cluster_idx + 2) % 65536

\* "cluster_idx += 1" on a u16
NextClusterIdx(cluster_idx) == (cluster_idx + 1) % 65536

\* a variant of LabelOf that numbers the clusters from 0
LabelOfZeroBased(l) == IF l.c \in {"Border", "Core"} THEN l.k - 1 ELSE -1

\* The final map of the classification to the label vector.
LabelOf(l) == IF l.c \in {"Border", "Core"} THEN l.k ELSE -1

\* a variant of FinalLabels that leaves out the points without a cluster
FinalLabelsDropNoise(labels) ==
    LET InCluster(l) == l.c \in {"Border", "Core"}
        kept == SelectSeq(labels, InCluster)
    IN  [i \in 1..Len(kept) |-> kept[i].k]

FinalLabels(labels) == [i \in 1..Len(labels) |-> LabelOf(labels[i])]

\* dbscan as a function, every query result taken in increasing index order
RECURSIVE ExpandAll(_, _, _, _, _, _, _)
ExpandAll(alg, points, labels, k, queue, eps, min_cluster_size) ==
    IF queue = <<>> THEN labels
    ELSE LET n == queue[Len(queue)]
             r == PopNeighbor(alg, points, labels, k, n, eps, min_cluster_size)
         IN  ExpandAll(alg, points, r.labels, k,
                       SubSeq(queue, 1, Len(queue) - 1) \o SortedSeq(r.ext),
                       eps, min_cluster_size)

RECURSIVE ScanFrom(_, _, _, _, _, _, _)
ScanFrom(alg, points, labels, cluster_idx, i, eps, min_cluster_size) ==
    IF i > Len(points) THEN labels
    ELSE LET kind == ScanKind(alg, points, labels, i, eps, min_cluster_size)
         IN  IF kind = "visited"
             THEN ScanFrom(alg, points, labels, cluster_idx, i + 1, eps, min_cluster_size)
             ELSE IF kind = "noise"
             THEN ScanFrom(alg, points, [labels EXCEPT ![i] = Noise], cluster_idx, i + 1,
                           eps, min_cluster_size)
             ELSE ScanFrom(alg, points,
                           ExpandAll(alg, points,
                                     [labels EXCEPT ![i] = Core(NextClusterIdx(cluster_idx))],
                                     NextClusterIdx(cluster_idx),
                                     SortedSeq(neighbors(alg, points, points[i], eps)),
                                     eps, min_cluster_size),
                           NextClusterIdx(cluster_idx), i + 1, eps, min_cluster_size)

dbscan(alg, points, eps, min_cluster_size) ==
    FinalLabels(ScanFrom(alg, points, [i \in 1..Len(points) |-> Undefined], 0, 1,
                         eps, min_cluster_size))

\* --------------------------------------------------------------- Hotspot2D
\* f64::round of num/den for den > 0: halves go away from zero
RoundHalfAway(num, den) ==
    IF num >= 0 THEN (2 * num + den) \div (2 * den)
    ELSE -((2 * (-num) + den) \div (2 * den))

\* The copies of the input that find_clusters_hotspot2d quantizes hold halves
\* of eps, so they are kept in half units: x2 = 2 * (p.x + dx * eps / 2).
ShiftedPoints(points, eps, dx, dy) ==
    [i \in 1..Len(points) |-> [x2 |-> 2 * points[i].x + dx * eps,
                               y2 |-> 2 * points[i].y + dy * eps]]

quantize(points2, quantum) ==
    [i \in 1..Len(points2) |-> XYPoint(RoundHalfAway(points2[i].x2, 2 * quantum),
                                       RoundHalfAway(points2[i].y2, 2 * quantum))]

\* a variant of hist2d_from that puts a position in front of the list of
\* its cell
RECURSIVE hist2d_push_front(_, _, _)
hist2d_push_front(points, i, map) ==
    IF i > Len(points) THEN map
    ELSE hist2d_push_front(points, i + 1,
            IF points[i] \in DOMAIN map
            THEN [map EXCEPT ![points[i]] = <<i>> \o @]
            ELSE (points[i] :> <<i>>) @@ map)

\* hist2d, "for (i, p) in points.iter().enumerate()" from the i-th point on:
\* map.entry(*p).or_insert_with(Vec::new).push(i)
RECURSIVE hist2d_from(_, _, _)
hist2d_from(points, i, map) ==
    IF i > Len(points) THEN map
    ELSE hist2d_from(points, i + 1,
            IF points[i] \in DOMAIN map
            THEN [map EXCEPT ![points[i]] = Append(@, i)]
            ELSE (points[i] :> <<i>>) @@ map)

\* cell -> the input positions of the points of the cell, as they were pushed
hist2d(points) == hist2d_from(points, 1, <<>>)

\* a variant of label_cluster_map in which every entry of the map advances
\* the label, qualifying or not
label_cluster_map_count_all(points, cluster_map, min_size, iter) ==
    LET qualifies(cell) == Len(cluster_map[cell]) >= min_size
        label_map == [cell \in {c \in DOMAIN cluster_map : qualifies(c)} |->
                        Cardinality({j \in 1..Len(iter) :
                                        \E m \in 1..Len(iter) : iter[m] = cell /\ j < m})]
    IN  [i \in 1..Len(points) |->
            IF points[i] \in DOMAIN label_map THEN label_map[points[i]] ELSE -1]

\* a variant of label_cluster_map whose first label is 1
label_cluster_map_from_one(points, cluster_map, min_size, iter) ==
    LET qualifies(cell) == Len(cluster_map[cell]) >= min_size
        label_map == [cell \in {c \in DOMAIN cluster_map : qualifies(c)} |->
                        1 + Cardinality({j \in 1..Len(iter) :
                                            /\ qualifies(iter[j])
                                            /\ \E m \in 1..Len(iter) : iter[m] = cell /\ j < m})]
    IN  [i \in 1..Len(points) |->
            IF points[i] \in DOMAIN label_map THEN label_map[points[i]] ELSE -1]

\* iter is the order in which the HashMap hands out its entries
label_cluster_map(points, cluster_map, min_size, iter) ==
    LET qualifies(cell) == Len(cluster_map[cell]) >= min_size
        label_map == [cell \in {c \in DOMAIN cluster_map : qualifies(c)} |->
                        Cardinality({j \in 1..Len(iter) :
                                        /\ qualifies(iter[j])
                                        /\ \E m \in 1..Len(iter) : iter[m] = cell /\ j < m})]
    IN  [i \in 1..Len(points) |->
            IF points[i] \in DOMAIN label_map THEN label_map[points[i]] ELSE -1]

\* a variant of merge_cluster_labels that looks at the four vectors last to
\* first
merge_cluster_labels_last_first(l1, l2, l3, l4) ==
    [i \in 1..Len(l1) |->
        IF l4[i] # -1 THEN l4[i]
        ELSE IF l3[i] # -1 THEN l3[i]
        ELSE IF l2[i] # -1 THEN l2[i]
        ELSE IF l1[i] # -1 THEN l1[i]
        ELSE -1]

merge_cluster_labels(l1, l2, l3, l4) ==
    [i \in 1..Len(l1) |->
        IF l1[i] # -1 THEN l1[i]
        ELSE IF l2[i] # -1 THEN l2[i]
        ELSE IF l3[i] # -1 THEN l3[i]
        ELSE IF l4[i] # -1 THEN l4[i]
        ELSE -1]

\* The label vectors one quantization can give, over the iteration orders of
\* its map.
ShiftLabels(points, eps, min_cluster_size, dx, dy) ==
    LET quantized == quantize(ShiftedPoints(points, eps, dx, dy), eps)
        map == hist2d(quantized)
    IN  {label_cluster_map(quantized, map, min_cluster_size, iter) : iter \in Perms(DOMAIN map)}

\* The label vectors find_clusters_hotspot2d can return.
find_clusters_hotspot2d(points, eps, min_cluster_size) ==
    {merge_cluster_labels(l1, l2, l3, l4) :
        l1 \in ShiftLabels(points, eps, min_cluster_size, 0, 0),
        l2 \in ShiftLabels(points, eps, min_cluster_size, 1, 0),
        l3 \in ShiftLabels(points, eps, min_cluster_size, 0, 1),
        l4 \in ShiftLabels(points, eps, min_cluster_size, 1, 1)}

\* ------------------------------------------------------------------ facade
Panic == [panic |-> TRUE, labels |-> <<>>]

Labels(l) == [panic |-> FALSE, labels |-> l]

\* dbscan::find_clusters::<T>: build the index of T over the points, run dbscan
find_clusters_dbscan(alg, points, eps, min_cluster_size) ==
    IF IndexPanics(alg, points, eps) THEN {Panic}
    ELSE {Labels(dbscan(alg, points, eps, min_cluster_size))}

\* The outcomes of find_clusters: a label vector, or a panic of the index.
find_clusters(points, eps, min_cluster_size, alg) ==
    IF alg = "Hotspot2D"
    THEN {Labels(l) : l \in find_clusters_hotspot2d(points, eps, min_cluster_size)}
    ELSE find_clusters_dbscan(alg, points, eps, min_cluster_size)

\* -------------------------------------------------------------- gridsearch
GridSearchResult(vx, vy, cluster_labels) ==
    [vx |-> vx, vy |-> vy, cluster_labels |-> cluster_labels]

\* a variant of apply_velocity that moves the points forward in time
apply_velocity_forward(vx, vy, points) ==
    [i \in 1..Len(points) |-> XYPoint(points[i].x + vx * points[i].t,
                                      points[i].y + vy * points[i].t)]

\* a variant of apply_velocity that returns the points last to first
apply_velocity_reversed(vx, vy, points) ==
    [i \in 1..Len(points) |->
        XYPoint(points[Len(points) + 1 - i].x - vx * points[Len(points) + 1 - i].t,
                points[Len(points) + 1 - i].y - vy * points[Len(points) + 1 - i].t)]

apply_velocity(vx, vy, points) ==
    [i \in 1..Len(points) |-> XYPoint(points[i].x - vx * points[i].t,
                                      points[i].y - vy * points[i].t)]

\* a variant of work_chunk_size that rounds down
work_chunk_size_floor(n_threads, n_vxs) == n_vxs \div n_threads

work_chunk_size(n_threads, n_vxs) ==
    IF n_vxs % n_threads = 0 THEN n_vxs \div n_threads ELSE (n_vxs \div n_threads) + 1

\* vxs.chunks(chunk_size) for chunk_size > 0: the number of chunks and the
\* c-th chunk (c = 1 is the first one the iterator yields)
NumChunks(vxs, chunk_size) == (Len(vxs) + chunk_size - 1) \div chunk_size

\* a variant of Chunk in which a chunk starts one value early, inside the
\* chunk before it
ChunkOverlapping(vxs, chunk_size, c) ==
    SubSeq(vxs, Max({1, (c - 1) * chunk_size}), Min({c * chunk_size, Len(vxs)}))

\* a variant of Chunk that hands the first chunk to everyone
ChunkAlwaysFirst(vxs, chunk_size, c) == SubSeq(vxs, 1, Min({chunk_size, Len(vxs)}))

Chunk(vxs, chunk_size, c) ==
    SubSeq(vxs, (c - 1) * chunk_size + 1, Min({c * chunk_size, Len(vxs)}))

\* a variant of GridOrder with the two loops exchanged
GridOrderInnerFirst(vxs, vys) ==
    [k \in 1..(Len(vxs) * Len(vys)) |->
        [vx |-> vxs[((k - 1) % Len(vxs)) + 1], vy |-> vys[((k - 1) \div Len(vxs)) + 1]]]

\* The (vx, vy) pairs in the order of "for vx in vxs { for vy in vys {..} }".
GridOrder(vxs, vys) ==
    [k \in 1..(Len(vxs) * Len(vys)) |->
        [vx |-> vxs[((k - 1) \div Len(vys)) + 1], vy |-> vys[((k - 1) % Len(vys)) + 1]]]

\* The outcomes of the loop body for one pair: a result, or a panic.
GridCell(points, vx, vy, alg, eps, min_cluster_size) ==
    {IF o.panic THEN [panic |-> TRUE, result |-> GridSearchResult(vx, vy, <<>>)]
     ELSE [panic |-> FALSE, result |-> GridSearchResult(vx, vy, o.labels)] :
        o \in find_clusters(apply_velocity(vx, vy, points), eps, min_cluster_size, alg)}

\* --------------------------------------------------------------- assembler
\* The six builders of grid_search and the running cluster_id.
EmptyTables ==
    [cluster_id |-> 0,
     cluster_id_builder |-> <<>>, vx_builder |-> <<>>, vy_builder |-> <<>>,
     arc_length_builder |-> <<>>,
     cluster_id_members_builder |-> <<>>, obs_id_members_builder |-> <<>>]

\* The per-result maps of the assembler loop.
EmptyLocal ==
    [label_id_map |-> <<>>, cluster_arc_starts |-> <<>>, cluster_arc_ends |-> <<>>,
     cluster_ids |-> <<>>]

\* a variant of ArcStart that keeps the dt of the first member
ArcStartFirstOnly(starts, cluster_id, dt) ==
    IF cluster_id \in DOMAIN starts THEN starts ELSE (cluster_id :> dt) @@ starts

ArcStart(starts, cluster_id, dt) ==
    IF cluster_id \in DOMAIN starts
    THEN (IF dt < starts[cluster_id] THEN [starts EXCEPT ![cluster_id] = dt] ELSE starts)
    ELSE (cluster_id :> dt) @@ starts

ArcEnd(ends, cluster_id, dt) ==
    IF cluster_id \in DOMAIN ends
    THEN (IF dt > ends[cluster_id] THEN [ends EXCEPT ![cluster_id] = dt] ELSE ends)
    ELSE (cluster_id :> dt) @@ ends

\* a variant of AssembleLabel without the "if *label < 0 { continue; }"
AssembleLabelKeepNoise(t, loc, result, i, ids, dts) ==
    LET label == result.cluster_labels[i]
        known == label \in DOMAIN loc.label_id_map
        val == IF known THEN loc.label_id_map[label] ELSE t.cluster_id + 1
        t1 == IF known THEN t
              ELSE [t EXCEPT !.cluster_id = t.cluster_id + 1,
                             !.vx_builder = Append(@, result.vx),
                             !.vy_builder = Append(@, result.vy)]
        loc1 == IF known THEN loc
                ELSE [loc EXCEPT !.label_id_map = (label :> val) @@ @,
                                 !.cluster_ids = Append(@, val)]
    IN  [t |-> [t1 EXCEPT !.cluster_id_members_builder = Append(@, val),
                          !.obs_id_members_builder = Append(@, ids[i])],
         loc |-> [loc1 EXCEPT !.cluster_arc_starts = ArcStart(@, val, dts[i]),
                              !.cluster_arc_ends = ArcEnd(@, val, dts[i])]]

\* The body of "for (i, label) in result.cluster_labels.iter().enumerate()".
AssembleLabel(t, loc, result, i, ids, dts) ==
    LET label == result.cluster_labels[i]
        known == label \in DOMAIN loc.label_id_map
        val == IF known THEN loc.label_id_map[label] ELSE t.cluster_id + 1
        t1 == IF known THEN t
              ELSE [t EXCEPT !.cluster_id = t.cluster_id + 1,
                             !.vx_builder = Append(@, result.vx),
                             !.vy_builder = Append(@, result.vy)]
        loc1 == IF known THEN loc
                ELSE [loc EXCEPT !.label_id_map = (label :> val) @@ @,
                                 !.cluster_ids = Append(@, val)]
    IN  IF label < 0 THEN [t |-> t, loc |-> loc]
        ELSE [t |-> [t1 EXCEPT !.cluster_id_members_builder = Append(@, val),
                               !.obs_id_members_builder = Append(@, ids[i])],
              loc |-> [loc1 EXCEPT !.cluster_arc_starts = ArcStart(@, val, dts[i]),
                                   !.cluster_arc_ends = ArcEnd(@, val, dts[i])]]

RECURSIVE AssembleLabels(_, _, _, _, _, _)
AssembleLabels(t, loc, result, i, ids, dts) ==
    IF i > Len(result.cluster_labels) THEN [t |-> t, loc |-> loc]
    ELSE LET r == AssembleLabel(t, loc, result, i, ids, dts)
         IN  AssembleLabels(r.t, r.loc, result, i + 1, ids, dts)

\* a variant of AppendArcs that writes the summary row of the first cluster of
\* a result only
AppendArcsFirstOnly(t, loc, j) ==
    IF loc.cluster_ids = <<>> THEN t
    ELSE LET cid == loc.cluster_ids[1]
         IN  [t EXCEPT !.cluster_id_builder = Append(@, cid),
                       !.arc_length_builder =
                           Append(@, loc.cluster_arc_ends[cid] - loc.cluster_arc_starts[cid])]

\* "for cluster_id in cluster_ids.iter()": the summary rows of one result
RECURSIVE AppendArcs(_, _, _)
AppendArcs(t, loc, j) ==
    IF j > Len(loc.cluster_ids) THEN t
    ELSE LET cid == loc.cluster_ids[j]
         IN  AppendArcs([t EXCEPT !.cluster_id_builder = Append(@, cid),
                                  !.arc_length_builder =
                                      Append(@, loc.cluster_arc_ends[cid]
                                                - loc.cluster_arc_starts[cid])],
                        loc, j + 1)

\* a variant of AssembleResult whose cluster counter starts again with every result
AssembleResultCounterReset(t, result, ids, dts) ==
    LET r == AssembleLabels([t EXCEPT !.cluster_id = 0], EmptyLocal, result, 1, ids, dts)
    IN  AppendArcs(r.t, r.loc, 1)

\* One iteration of "for result in results.into_iter()".
AssembleResult(t, result, ids, dts) ==
    LET r == AssembleLabels(t, EmptyLocal, result, 1, ids, dts)
    IN  AppendArcs(r.t, r.loc, 1)

\* -------------------------------------------------------------- cellsearch
\* ThorCell::new()
NewCell == [subtrees |-> <<>>, dts |-> <<>>, sorted_dts |-> <<>>]

\* ThorSubtree::new(dt, points)
NewSubtree(dt, points) == [dt |-> dt, points |-> points]

InsertAt(vec, idx, val) == SubSeq(vec, 1, idx) \o <<val>> \o SubSeq(vec, idx + 1, Len(vec))

\* Is vec partitioned by "x < val": no element below val behind one that is not?
Partitioned(vec, val) ==
    \A a, b \in 1..Len(vec) : (a < b /\ vec[b] < val) => vec[a] < val

\* vec.partition_point(|&x| x < val) and vec.insert(idx, val): the vectors
\* that can result.  On a vector that is not partitioned the index that
\* partition_point returns is unspecified.
sorted_insert(vec, val) ==
    IF Partitioned(vec, val)
    THEN {InsertAt(vec, Cardinality({a \in 1..Len(vec) : vec[a] < val}), val)}
    ELSE {InsertAt(vec, idx, val) : idx \in 0..Len(vec)}

\* ThorCell::add_point: the cells that can result
add_point(cell, dt, point) ==
    IF dt \in DOMAIN cell.dts
    THEN {[cell EXCEPT !.subtrees[cell.dts[dt]].points = Append(@, point)]}
    ELSE {[subtrees |-> Append(cell.subtrees, NewSubtree(dt, <<point>>)),
           dts |-> (dt :> (Len(cell.subtrees) + 1)) @@ cell.dts,
           sorted_dts |-> sd] : sd \in sorted_insert(cell.sorted_dts, dt)}

\* ThorCell::add_points: the cells that can result
add_points(cell, dt, points) ==
    IF dt \in DOMAIN cell.dts
    THEN {[cell EXCEPT !.subtrees[cell.dts[dt]].points = @ \o points]}
    ELSE {[subtrees |-> Append(cell.subtrees, NewSubtree(dt, points)),
           dts |-> cell.dts,
           sorted_dts |-> sd] : sd \in sorted_insert(Append(cell.sorted_dts, dt), dt)}

manhattan(p, q) ==
    (IF p.x >= q.x THEN p.x - q.x ELSE q.x - p.x) + (IF p.y >= q.y THEN p.y - q.y ELSE q.y - p.y)

\* ThorSubtree::nearest_within: the positions nearest_one can name, 0 for None
nearest_within(subtree, point, radius) ==
    IF subtree.points = <<>> THEN {0}
    ELSE LET least == Min({manhattan(subtree.points[a], point) : a \in 1..Len(subtree.points)})
         IN  IF least < radius
             THEN {a \in 1..Len(subtree.points) : manhattan(subtree.points[a], point) = least}
             ELSE {0}

\* &self.subtrees[self.dts[dt]] for the i-th entry of sorted_dts
SubtreeAt(cell, i) == cell.subtrees[cell.dts[cell.sorted_dts[i]]]

\* self.dts[dt] panics for a dt that is no key of dts
LookupPanics(cell) == \E i \in 1..Len(cell.sorted_dts) : cell.sorted_dts[i] \notin DOMAIN cell.dts

\* the labels with the entries listed in possible set to v
SetAll(labels, possible, v) ==
    [k \in 1..Len(labels) |->
        [idx \in 1..Len(labels[k]) |->
            IF <<k, idx>> \in Range(possible) THEN v ELSE labels[k][idx]]]

\* find_clusters2, "for (k, follower_subtree) in followers": the labels and
\* the possible_cluster_points it can end with
RECURSIVE Followers(_, _, _, _, _, _, _, _, _)
Followers(cell, labels, cluster_idx, point, k, possible, eps, vx, vy) ==
    IF k > Len(cell.sorted_dts) THEN {[labels |-> labels, possible |-> possible]}
    ELSE LET follower_subtree == SubtreeAt(cell, k)
             moved == XYPoint(point.x + vx * follower_subtree.dt,
                              point.y + vy * follower_subtree.dt)
         IN  UNION {IF idx = 0
                    THEN Followers(cell, labels, cluster_idx, point, k + 1, possible,
                                   eps, vx, vy)
                    ELSE Followers(cell, [labels EXCEPT ![k][idx] = Border(cluster_idx)],
                                   cluster_idx, point, k + 1, Append(possible, <<k, idx>>),
                                   eps, vx, vy) :
                       idx \in nearest_within(follower_subtree, moved, eps)}

\* find_clusters2, the body of the loop over the points of the i-th subtree
VisitPoint(cell, st, i, j, eps, min_weight, vx, vy) ==
    IF st.labels[i][j] # Undefined THEN {st}
    ELSE {IF Len(f.possible) < min_weight
          THEN [labels |-> SetAll([f.labels EXCEPT ![i][j] = Noise], f.possible, Noise),
                cluster_idx |-> st.cluster_idx]
          ELSE [labels |-> SetAll([f.labels EXCEPT ![i][j] = Core(st.cluster_idx + 1)],
                                  f.possible, Core(st.cluster_idx + 1)),
                cluster_idx |-> st.cluster_idx + 1] :
             f \in Followers(cell, st.labels, st.cluster_idx, SubtreeAt(cell, i).points[j],
                             i, <<>>, eps, vx, vy)}

\* find_clusters2, "for (i, dt) in self.sorted_dts.iter().enumerate()" from
\* the j-th point of the i-th subtree on
RECURSIVE LabelCell(_, _, _, _, _, _, _, _)
LabelCell(cell, st, i, j, eps, min_weight, vx, vy) ==
    IF i > Len(cell.sorted_dts) THEN {st}
    ELSE IF j > Len(SubtreeAt(cell, i).points)
    THEN LabelCell(cell, st, i + 1, 1, eps, min_weight, vx, vy)
    ELSE UNION {LabelCell(cell, s2, i, j + 1, eps, min_weight, vx, vy) :
                   s2 \in VisitPoint(cell, st, i, j, eps, min_weight, vx, vy)}

\* the (subtree_idx, point_idx) pairs of a label table, in the order of the
\* two loops that organize the results
RECURSIVE LabelPositions(_, _)
LabelPositions(labels, s) ==
    IF s > Len(labels) THEN <<>>
    ELSE [p \in 1..Len(labels[s]) |-> <<s, p>>] \o LabelPositions(labels, s + 1)

\* the positions labelled Core(c) or Border(c), in that order
LabelledPositions(labels, c) ==
    LET all == LabelPositions(labels, 1)
        hits == SortedSeq({m \in 1..Len(all) : labels[all[m][1]][all[m][2]].k = c
                                               /\ labels[all[m][1]][all[m][2]].c \in {"Core", "Border"}})
    IN  [m \in 1..Len(hits) |-> all[hits[m]]]

\* Does self.subtrees[subtree_idx].points[point_idx] exist for every labelled
\* position?  The position is one of the label table, whose rows follow
\* sorted_dts; the subtree list is indexed with it as it is.
CollectPanics(cell, st) ==
    \E c \in 1..st.cluster_idx :
        \E m \in 1..Len(LabelledPositions(st.labels, c)) :
            LET pos == LabelledPositions(st.labels, c)[m]
            IN  \/ pos[1] > Len(cell.subtrees)
                \/ pos[2] > Len(cell.subtrees[pos[1]].points)

\* find_clusters2, "Now organize the results"
CollectClusters(cell, st) ==
    [c \in 1..st.cluster_idx |->
        LET at == LabelledPositions(st.labels, c)
        IN  [m \in 1..Len(at) |->
                XYTPoint(cell.subtrees[at[m][1]].points[at[m][2]].x,
                         cell.subtrees[at[m][1]].points[at[m][2]].y,
                         cell.subtrees[at[m][1]].dt)]]

\* vec![ClusterLabel::Undefined; n]
RECURSIVE UndefinedRow(_)
UndefinedRow(n) == IF n = 0 THEN <<>> ELSE Append(UndefinedRow(n - 1), Undefined)

\* find_clusters2, "let mut labels": one row of Undefined for each of the
\* first n entries of sorted_dts
RECURSIVE UndefinedLabels(_, _)
UndefinedLabels(cell, n) ==
    IF n = 0 THEN <<>>
    ELSE Append(UndefinedLabels(cell, n - 1), UndefinedRow(Len(SubtreeAt(cell, n).points)))

CellPanic == [panic |-> TRUE, labels |-> <<>>, clusters |-> <<>>]

\* The outcomes of ThorCell::find_clusters2: the clusters with the label table
\* they were read from, or a panic
find_clusters2(cell, eps, min_weight, vx, vy) ==
    IF LookupPanics(cell) THEN {CellPanic}
    ELSE LET labels0 == UndefinedLabels(cell, Len(cell.sorted_dts))
         IN  {IF CollectPanics(cell, st) THEN CellPanic
              ELSE [panic |-> FALSE, labels |-> st.labels, clusters |-> CollectClusters(cell, st)] :
                 st \in LabelCell(cell, [labels |-> labels0, cluster_idx |-> 0], 1, 1,
                                  eps, min_weight, vx, vy)}

\* --------------------------------------------------------------- variables
VARIABLES
    db_alg, db_points, db_eps, db_min,   \* SpecDbscan: the arguments of dbscan
    db_pc,                               \* "scan", "expand", "done" ("off" in the other specs)
    db_labels,                           \* labels: Vec<DBScanClassification>
    db_cluster_idx,                      \* cluster_idx
    db_i,                                \* the scan position
    db_queue,                            \* the work list of the open cluster, in batches
    db_out,                              \* the returned Vec<i32>
    db_seeds,                            \* history: the scan position that opened each cluster
    cl_alg, cl_points, cl_eps, cl_min,   \* SpecCluster: the arguments of find_clusters
    cl_pc,                               \* "call", "done" ("off" in the other specs)
    cl_out,                              \* the outcome of the call
    points, vxs, vys, alg, eps, min_cluster_size, n_threads,
                                         \* Spec: the arguments of grid_search
    have_core_ids,                       \* does get_core_ids() return Some(..)?
    pc,                                  \* where the calling thread is
    spawn_i,                             \* _i of the spawn loop
    handles,                             \* the JoinHandles, as worker numbers
    workers,                             \* per worker: status, vx_chunk, position
    tx_holders,                          \* who holds a Sender (0: the caller's tx)
    channel,                             \* the results sent and not yet received
    results,                             \* the Vec the search returns
    asm_i,                               \* results consumed by the assembler
    tables,                              \* cluster_id and the six builders
    en_ids, en_xs, en_ys, en_dts,        \* SpecEntry: the four input columns of grid_search
    en_pc,                               \* "entry", "search", "assemble", "done", "error", "panicked"
    en_results,                          \* what cluster_grid_search returned
    en_asm_i,                            \* results consumed by the assembler
    en_tables,                           \* cluster_id and the six builders
    wc_threads, wc_n,                    \* SpecChunk: the arguments of work_chunk_size
    wc_pc,                               \* "call", "done" ("off" in the other specs)
    wc_out,                              \* the returned chunk size
    av_points, av_vx, av_vy,             \* SpecVelocity: the arguments of apply_velocity
    av_pc,                               \* "call", "done" ("off" in the other specs)
    av_out,                              \* the returned Vec<XYPoint<f64>>
    hs_points, hs_eps, hs_min,           \* SpecHotspotSteps: the arguments of find_clusters_hotspot2d
    hs_pc,                               \* "label", "done" ("off" in the other specs)
    hs_quantized,                        \* quantized1.. as far as computed
    hs_maps,                             \* the hist2d map of each of them
    hs_labels,                           \* labels1.. as far as computed
    hs_out,                              \* the merged label vector
    ix_alg,                              \* SpecIndex: the index type
    ix_n,                                \* the number of points
    ix_near,                             \* the positions of the points at the origin
    ix_q,                                \* the position of the queried point
    ix_pc,                               \* "query", "done" ("off" in the other specs)
    ix_out,                              \* the indices the query returned
    tc_subtrees, tc_dts, tc_sorted_dts,  \* SpecCell: the fields of a ThorCell
    tc_pc,                               \* "build", "done" ("off" in the other specs)
    tc_out                               \* the outcome of find_clusters2

dbvars == <<db_alg, db_points, db_eps, db_min, db_pc, db_labels, db_cluster_idx, db_i,
            db_queue, db_out, db_seeds>>

clvars == <<cl_alg, cl_points, cl_eps, cl_min, cl_pc, cl_out>>

gsin == <<points, vxs, vys, alg, eps, min_cluster_size, n_threads, have_core_ids>>

gsvars == <<gsin, pc, spawn_i, handles, workers, tx_holders, channel, results, asm_i, tables>>

envars == <<en_ids, en_xs, en_ys, en_dts, en_pc, en_results, en_asm_i, en_tables>>

wcvars == <<wc_threads, wc_n, wc_pc, wc_out>>

avvars == <<av_points, av_vx, av_vy, av_pc, av_out>>

hsvars == <<hs_points, hs_eps, hs_min, hs_pc, hs_quantized, hs_maps, hs_labels, hs_out>>

ixvars == <<ix_alg, ix_n, ix_near, ix_q, ix_pc, ix_out>>

tcvars == <<tc_subtrees, tc_dts, tc_sorted_dts, tc_pc, tc_out>>

vars == <<dbvars, clvars, gsvars, envars, wcvars, avvars, hsvars, ixvars, tcvars>>

GsOff ==
    /\ points = <<>> /\ vxs = <<>> /\ vys = <<>> /\ alg = "DBSCAN" /\ eps = 1
    /\ min_cluster_size = 1 /\ n_threads = 1 /\ have_core_ids = TRUE /\ pc = "off"
    /\ spawn_i = 1 /\ handles = <<>> /\ workers = <<>> /\ tx_holders = {} /\ channel = <<>>
    /\ results = <<>> /\ asm_i = 0 /\ tables = EmptyTables

DbOff ==
    /\ db_alg = "DBSCAN" /\ db_points = <<>> /\ db_eps = 1 /\ db_min = 1 /\ db_pc = "off"
    /\ db_labels = <<>> /\ db_cluster_idx = 0 /\ db_i = 1 /\ db_queue = <<>> /\ db_out = <<>>
    /\ db_seeds = <<>>

ClOff ==
    /\ cl_alg = "DBSCAN" /\ cl_points = <<>> /\ cl_eps = 1 /\ cl_min = 1 /\ cl_pc = "off"
    /\ cl_out = Panic

EnOff ==
    /\ en_ids = <<>> /\ en_xs = <<>> /\ en_ys = <<>> /\ en_dts = <<>> /\ en_pc = "off"
    /\ en_results = <<>> /\ en_asm_i = 0 /\ en_tables = EmptyTables

WcOff == wc_threads = 1 /\ wc_n = 0 /\ wc_pc = "off" /\ wc_out = 0

AvOff == av_points = <<>> /\ av_vx = 0 /\ av_vy = 0 /\ av_pc = "off" /\ av_out = <<>>

IxOff ==
    /\ ix_alg = "DBSCAN" /\ ix_n = 0 /\ ix_near = {} /\ ix_q = 0 /\ ix_pc = "off"
    /\ ix_out = {}

TcOff ==
    /\ tc_subtrees = <<>> /\ tc_dts = <<>> /\ tc_sorted_dts = <<>> /\ tc_pc = "off"
    /\ tc_out = CellPanic

HsOff ==
    /\ hs_points = <<>> /\ hs_eps = 1 /\ hs_min = 1 /\ hs_pc = "off"
    /\ hs_quantized = <<>> /\ hs_maps = <<>> /\ hs_labels = <<>> /\ hs_out = <<>>

\* -------------------------------------------------------------- SpecDbscan
DbCoords == 0..MaxDbCoord

DbPointSet == {XYPoint(x, 0) : x \in DbCoords}

DbEpsSet == {1, 2}

DbMinSet == 0..3

InitDbscan ==
    /\ db_alg \in DbscanTags
    /\ db_points \in SeqsUpTo(DbPointSet, MaxDbPts)
    /\ db_eps \in DbEpsSet
    /\ db_min \in DbMinSet
    /\ db_min = 0 => (db_alg = "DBSCAN" /\ db_eps = 1)
    /\ db_pc = "scan"
    /\ db_labels = [i \in 1..Len(db_points) |-> Undefined]
    /\ db_cluster_idx = 0
    /\ db_i = 1
    /\ db_queue = <<>>
    /\ db_out = <<>>
    /\ db_seeds = <<>>
    /\ ClOff
    /\ GsOff
    /\ EnOff
    /\ WcOff
    /\ AvOff
    /\ HsOff
    /\ IxOff
    /\ TcOff

\* The work list is a Vec popped from its end.  A query result is appended in
\* an order the index chooses, so the list is kept as the sequence of the
\* appended results, each the set of its indices not popped yet: the next
\* pop takes any index of the last set.
PushBatch(queue, found) == IF found = {} THEN queue ELSE Append(queue, found)

\* a variant of PopFrom that leaves the popped index in the list
PopFromKeep(queue, n) == queue

\* a variant of PopFrom that also forgets the rest of the popped query result
PopFromDropBatch(queue, n) == SubSeq(queue, 1, Len(queue) - 1)

PopFrom(queue, n) ==
    LET last == queue[Len(queue)] \ {n}
        front == SubSeq(queue, 1, Len(queue) - 1)
    IN  IF last = {} THEN front ELSE Append(front, last)

\* for (i, point) in points.iter().enumerate(): the head of one iteration
DbScanPoint ==
    /\ db_pc = "scan"
    /\ db_i <= Len(db_points)
    /\ LET kind == ScanKind(db_alg, db_points, db_labels, db_i, db_eps, db_min)
       IN  \/ /\ kind = "visited"
              /\ db_i' = db_i + 1
              /\ UNCHANGED <<db_labels, db_cluster_idx, db_queue, db_pc, db_seeds>>
           \/ /\ kind = "noise"
              /\ db_labels' = [db_labels EXCEPT ![db_i] = Noise]
              /\ db_i' = db_i + 1
              /\ UNCHANGED <<db_cluster_idx, db_queue, db_pc, db_seeds>>
           \/ /\ kind = "seed"
              /\ db_cluster_idx' = NextClusterIdx(db_cluster_idx)
              /\ db_labels' = [db_labels EXCEPT ![db_i] = Core(NextClusterIdx(db_cluster_idx))]
              /\ db_seeds' = Append(db_seeds, db_i)
              /\ db_queue' = PushBatch(<<>>, neighbors(db_alg, db_points, db_points[db_i], db_eps))
              /\ db_pc' = "expand"
              /\ UNCHANGED db_i
    /\ UNCHANGED <<db_alg, db_points, db_eps, db_min, db_out, clvars, gsvars, envars, wcvars, avvars, hsvars, ixvars, tcvars>>

\* while let Some(neighbor) = queue.pop(): one iteration.  The popped index is
\* any of the last batch, since within_unsorted may have listed it last.
DbPop ==
    /\ db_pc = "expand"
    /\ db_queue # <<>>
    /\ \E n \in db_queue[Len(db_queue)] :
          LET r == PopNeighbor(db_alg, db_points, db_labels, db_cluster_idx, n, db_eps, db_min)
          IN  /\ db_labels' = r.labels
              /\ db_queue' = PushBatch(PopFrom(db_queue, n), r.ext)
    /\ UNCHANGED <<db_alg, db_points, db_eps, db_min, db_pc, db_cluster_idx, db_i, db_out, db_seeds>>
    /\ UNCHANGED <<clvars, gsvars, envars, wcvars, avvars, hsvars, ixvars, tcvars>>

\* queue.pop() returns None: the scan goes on with the next input position
DbExpandEnd ==
    /\ db_pc = "expand"
    /\ db_queue = <<>>
    /\ db_pc' = "scan"
    /\ db_i' = db_i + 1
    /\ UNCHANGED <<db_alg, db_points, db_eps, db_min, db_labels, db_cluster_idx, db_queue,
                   db_out, db_seeds, clvars, gsvars, envars, wcvars, avvars, hsvars, ixvars, tcvars>>

\* the scan is over: labels.iter().map(..).collect()
DbFinish ==
    /\ db_pc = "scan"
    /\ db_i > Len(db_points)
    /\ db_out' = FinalLabels(db_labels)
    /\ db_pc' = "done"
    /\ UNCHANGED <<db_alg, db_points, db_eps, db_min, db_labels, db_cluster_idx, db_i,
                   db_queue, db_seeds, clvars, gsvars, envars, wcvars, avvars, hsvars, ixvars, tcvars>>

NextDbscan == DbScanPoint \/ DbPop \/ DbExpandEnd \/ DbFinish

SpecDbscan == InitDbscan /\ [][NextDbscan]_vars

\* The inputs on which termination is checked: at most three points.
InitDbscanLive ==
    /\ InitDbscan
    /\ Len(db_points) <= 3

\* dbscan is sequential code: its next statement is always executed.
FairSpecDbscan == InitDbscanLive /\ [][NextDbscan]_vars /\ WF_vars(NextDbscan)

\* The label vector does not depend on the order of the query results: it is
\* the one dbscan computes with every result in increasing index order.
DbOrderIndependent ==
    db_pc = "done" => db_out = dbscan(db_alg, db_points, db_eps, db_min)

\* ------------------------------------------------------------- SpecCluster
ClPointSet == {XYPoint(x, y) : x \in -1..2, y \in 0..1}

ClEpsSet == {1, 2}

ClMinSet == 1..3

InitCluster ==
    /\ cl_alg \in AlgTags
    /\ cl_points \in SeqsUpTo(ClPointSet, MaxClPts)
    /\ cl_eps \in ClEpsSet
    /\ cl_min \in ClMinSet
    /\ cl_alg = "Hotspot2D" => cl_min >= 2
    /\ cl_pc = "call"
    /\ cl_out = Panic
    /\ DbOff
    /\ GsOff
    /\ EnOff
    /\ WcOff
    /\ AvOff
    /\ HsOff
    /\ IxOff
    /\ TcOff

\* one call of find_clusters
ClFindClusters ==
    /\ cl_pc = "call"
    /\ cl_out' \in find_clusters(cl_points, cl_eps, cl_min, cl_alg)
    /\ cl_pc' = "done"
    /\ UNCHANGED <<cl_alg, cl_points, cl_eps, cl_min, dbvars, gsvars, envars, wcvars, avvars, hsvars, ixvars, tcvars>>

NextCluster == ClFindClusters

SpecCluster == InitCluster /\ [][NextCluster]_vars

\* ------------------------------------------------------------- SpecHotspot
\* find_clusters with the Hotspot2D tag on points of one line, two units of
\* eps wide, so that a quantization can hold two qualifying cells
HsPointSet == {XYPoint(x, 0) : x \in 0..3}

InitHotspot ==
    /\ cl_alg = "Hotspot2D"
    /\ cl_points \in SeqsUpTo(HsPointSet, MaxHsPts)
    /\ cl_eps = 2
    /\ cl_min = 2
    /\ cl_pc = "call"
    /\ cl_out = Panic
    /\ DbOff
    /\ GsOff
    /\ EnOff
    /\ WcOff
    /\ AvOff
    /\ HsOff
    /\ IxOff
    /\ TcOff

SpecHotspot == InitHotspot /\ [][NextCluster]_vars

\* -------------------------------------------------------------------- Spec
\* the velocity grid: vxs = 0, 1, 2, ..   vys = 0, 1, ..
Velocities(n) == [i \in 1..n |-> i - 1]

ObsSet == {XYTPoint(0, 0, 0), XYTPoint(1, 0, 1)}

GsEpsSet == {1}

GsMinSet == {1, 2}

\* ids.value(i) and dts.value(i) of the observation at position i
ObsIds == [i \in 1..Len(points) |-> i]

Dts == [i \in 1..Len(points) |-> points[i].t]

Init ==
    /\ points \in SeqsUpTo(ObsSet, MaxObs)
    /\ vxs \in {Velocities(n) : n \in 0..MaxVx}
    /\ vys \in {Velocities(n) : n \in 0..MaxVy}
    /\ alg \in AlgTags
    /\ eps \in GsEpsSet
    /\ min_cluster_size \in GsMinSet
    /\ alg = "Hotspot2D" => min_cluster_size >= 2
    /\ n_threads \in 1..MaxThreads
    /\ have_core_ids \in BOOLEAN
    /\ pc = "start"
    /\ spawn_i = 1
    /\ handles = <<>>
    /\ workers = [w \in 1..(n_threads - 1) |-> [status |-> "unspawned", vx_chunk |-> <<>>, pos |-> 0]]
    /\ tx_holders = {}
    /\ channel = <<>>
    /\ results = <<>>
    /\ asm_i = 0
    /\ tables = EmptyTables
    /\ DbOff
    /\ ClOff
    /\ EnOff
    /\ WcOff
    /\ AvOff
    /\ HsOff
    /\ IxOff
    /\ TcOff

\* n_threads == 1: cluster_grid_search_serial runs in the calling thread
GsSerialStart ==
    /\ pc = "start"
    /\ n_threads = 1
    /\ pc' = "serial"
    /\ UNCHANGED <<gsin, spawn_i, handles, workers, tx_holders, channel, results, asm_i, tables>>
    /\ UNCHANGED <<dbvars, clvars, envars, wcvars, avvars, hsvars, ixvars, tcvars>>

\* one iteration of the loops of cluster_grid_search_serial: cluster the next
\* pair and push the result, or panic in find_clusters
GsSerialStep ==
    /\ pc = "serial"
    /\ Len(results) < Len(GridOrder(vxs, vys))
    /\ LET pair == GridOrder(vxs, vys)[Len(results) + 1]
       IN  \E c \in GridCell(points, pair.vx, pair.vy, alg, eps, min_cluster_size) :
              IF c.panic THEN pc' = "panicked" /\ UNCHANGED results
              ELSE results' = Append(results, c.result) /\ UNCHANGED pc
    /\ UNCHANGED <<gsin, spawn_i, handles, workers, tx_holders, channel, asm_i, tables>>
    /\ UNCHANGED <<dbvars, clvars, envars, wcvars, avvars, hsvars, ixvars, tcvars>>

\* the loops of cluster_grid_search_serial are over: results is returned
GsSerialReturn ==
    /\ pc = "serial"
    /\ Len(results) = Len(GridOrder(vxs, vys))
    /\ pc' = "returned"
    /\ UNCHANGED <<gsin, spawn_i, handles, workers, tx_holders, channel, results, asm_i, tables>>
    /\ UNCHANGED <<dbvars, clvars, envars, wcvars, avvars, hsvars, ixvars, tcvars>>

\* n_threads > 1: vxs.chunks(..) and channel(); chunks(0) panics
GsParallelStart ==
    /\ pc = "start"
    /\ n_threads > 1
    /\ IF work_chunk_size(n_threads, Len(vxs)) = 0
       THEN pc' = "panicked" /\ UNCHANGED tx_holders
       ELSE pc' = "spawn" /\ tx_holders' = {0}
    /\ UNCHANGED <<gsin, spawn_i, handles, workers, channel, results, asm_i, tables>>
    /\ UNCHANGED <<dbvars, clvars, envars, wcvars, avvars, hsvars, ixvars, tcvars>>

\* Is there an iteration of "for _i in 1..n_threads" left that finds a chunk?
SpawnLoopGoesOn ==
    /\ spawn_i < n_threads
    /\ spawn_i <= NumChunks(vxs, work_chunk_size(n_threads, Len(vxs)))

\* one iteration of the spawn loop that finds a chunk
GsSpawn ==
    /\ pc = "spawn"
    /\ SpawnLoopGoesOn
    /\ IF have_core_ids
       THEN /\ workers' = [workers EXCEPT ![spawn_i] =
                              [status |-> "running",
                               vx_chunk |-> Chunk(vxs, work_chunk_size(n_threads, Len(vxs)),
                                                  spawn_i),
                               pos |-> 0]]
            /\ tx_holders' = tx_holders \cup {spawn_i}
            /\ handles' = Append(handles, spawn_i)
            /\ spawn_i' = spawn_i + 1
            /\ UNCHANGED pc
       ELSE /\ pc' = "panicked"
            /\ tx_holders' = tx_holders \ {0}
            /\ UNCHANGED <<workers, handles, spawn_i>>
    /\ UNCHANGED <<gsin, channel, results, asm_i, tables>>
    /\ UNCHANGED <<dbvars, clvars, envars, wcvars, avvars, hsvars, ixvars, tcvars>>

\* a variant of DropTx in which the calling thread keeps its tx
DropTxKept(holders) == holders

\* The senders left once the calling thread has done drop(tx).
DropTx(holders) == holders \ {0}

\* the spawn loop is over (no iteration or no chunk left): drop(tx)
GsDropTx ==
    /\ pc = "spawn"
    /\ ~SpawnLoopGoesOn
    /\ tx_holders' = DropTx(tx_holders)
    /\ pc' = "drain"
    /\ UNCHANGED <<gsin, spawn_i, handles, workers, channel, results, asm_i, tables>>
    /\ UNCHANGED <<dbvars, clvars, envars, wcvars, avvars, hsvars, ixvars, tcvars>>

\* a variant of WorkerPair that walks the vys of a vx from the last to the first
WorkerPairVyBackwards(w) ==
    [vx |-> workers[w].vx_chunk[(workers[w].pos \div Len(vys)) + 1],
     vy |-> vys[Len(vys) - (workers[w].pos % Len(vys))]]

\* the pair a worker is at
WorkerPair(w) ==
    [vx |-> workers[w].vx_chunk[(workers[w].pos \div Len(vys)) + 1],
     vy |-> vys[(workers[w].pos % Len(vys)) + 1]]

WorkerTotal(w) == Len(workers[w].vx_chunk) * Len(vys)

\* one iteration of the worker's loops: cluster one pair and send the result,
\* or panic in find_clusters (the unwinding drops the worker's tx)
WorkerStep(w) ==
    /\ workers[w].status = "running"
    /\ workers[w].pos < WorkerTotal(w)
    /\ \E c \in GridCell(points, WorkerPair(w).vx, WorkerPair(w).vy, alg, eps, min_cluster_size) :
          IF c.panic
          THEN /\ workers' = [workers EXCEPT ![w].status = "panicked"]
               /\ tx_holders' = tx_holders \ {w}
               /\ UNCHANGED channel
          ELSE /\ workers' = [workers EXCEPT ![w].pos = @ + 1]
               /\ channel' = Append(channel, c.result)
               /\ UNCHANGED tx_holders
    /\ UNCHANGED <<gsin, pc, spawn_i, handles, results, asm_i, tables>>
    /\ UNCHANGED <<dbvars, clvars, envars, wcvars, avvars, hsvars, ixvars, tcvars>>

\* the worker's closure returns: its tx is dropped
WorkerExit(w) ==
    /\ workers[w].status = "running"
    /\ workers[w].pos = WorkerTotal(w)
    /\ workers' = [workers EXCEPT ![w].status = "done"]
    /\ tx_holders' = tx_holders \ {w}
    /\ UNCHANGED <<gsin, pc, spawn_i, handles, channel, results, asm_i, tables>>
    /\ UNCHANGED <<dbvars, clvars, envars, wcvars, avvars, hsvars, ixvars, tcvars>>

\* rx.recv() returns Ok(result)
GsRecv ==
    /\ pc = "drain"
    /\ channel # <<>>
    /\ results' = Append(results, Head(channel))
    /\ channel' = Tail(channel)
    /\ UNCHANGED <<gsin, pc, spawn_i, handles, workers, tx_holders, asm_i, tables>>
    /\ UNCHANGED <<dbvars, clvars, envars, wcvars, avvars, hsvars, ixvars, tcvars>>

\* rx.recv() returns Err: the channel is empty and no Sender is left
GsRecvClosed ==
    /\ pc = "drain"
    /\ channel = <<>>
    /\ tx_holders = {}
    /\ pc' = "join"
    /\ UNCHANGED <<gsin, spawn_i, handles, workers, tx_holders, channel, results, asm_i, tables>>
    /\ UNCHANGED <<dbvars, clvars, envars, wcvars, avvars, hsvars, ixvars, tcvars>>

\* a variant of JoinAll that ignores the result of join
JoinAllIgnoreErr(hs, ws) == "returned"

\* What "for handle in handles { handle.join().unwrap(); }" ends in.
JoinAll(hs, ws) ==
    IF \E j \in 1..Len(hs) : ws[hs[j]].status = "panicked" THEN "panicked" ELSE "returned"

\* the join loop; every join waits for its thread to end
GsJoin ==
    /\ pc = "join"
    /\ \A j \in 1..Len(handles) : workers[handles[j]].status \in {"done", "panicked"}
    /\ pc' = JoinAll(handles, workers)
    /\ UNCHANGED <<gsin, spawn_i, handles, workers, tx_holders, channel, results, asm_i, tables>>
    /\ UNCHANGED <<dbvars, clvars, envars, wcvars, avvars, hsvars, ixvars, tcvars>>

\* grid_search: one iteration of "for result in results.into_iter()"
AsmResult ==
    /\ pc = "returned"
    /\ asm_i < Len(results)
    /\ tables' = AssembleResult(tables, results[asm_i + 1], ObsIds, Dts)
    /\ asm_i' = asm_i + 1
    /\ UNCHANGED <<gsin, pc, spawn_i, handles, workers, tx_holders, channel, results>>
    /\ UNCHANGED <<dbvars, clvars, envars, wcvars, avvars, hsvars, ixvars, tcvars>>

\* grid_search: the builders are finished and the two tables returned
AsmFinish ==
    /\ pc = "returned"
    /\ asm_i = Len(results)
    /\ pc' = "done"
    /\ UNCHANGED <<gsin, spawn_i, handles, workers, tx_holders, channel, results, asm_i, tables>>
    /\ UNCHANGED <<dbvars, clvars, envars, wcvars, avvars, hsvars, ixvars, tcvars>>

Next ==
    \/ GsSerialStart
    \/ GsSerialStep
    \/ GsSerialReturn
    \/ GsParallelStart
    \/ GsSpawn
    \/ GsDropTx
    \/ \E w \in DOMAIN workers : WorkerStep(w)
    \/ \E w \in DOMAIN workers : WorkerExit(w)
    \/ GsRecv
    \/ GsRecvClosed
    \/ GsJoin
    \/ AsmResult
    \/ AsmFinish

Spec == Init /\ [][Next]_vars

\* The searches whose termination is checked: at most one observation and the
\* two tags whose index differs in panicking.
InitLive ==
    /\ Init
    /\ Len(points) <= 1
    /\ alg \in {"DBSCAN", "DbscanFixed16"}
    /\ min_cluster_size = 1

\* The threads are scheduled by the operating system: a step that stays
\* possible is eventually taken.
FairSpec == InitLive /\ [][Next]_vars /\ WF_vars(Next)

\* The searches in which several workers interleave: up to MaxParThreads
\* threads, one observation, the kd-tree DBSCAN, core ids reported.
InitPar ==
    /\ points = <<XYTPoint(1, 0, 1)>>
    /\ vxs \in {Velocities(n) : n \in 0..MaxVx}
    /\ vys \in {Velocities(n) : n \in 0..MaxVy}
    /\ alg = "DBSCAN"
    /\ eps \in GsEpsSet
    /\ min_cluster_size = 1
    /\ n_threads \in 1..MaxParThreads
    /\ have_core_ids = TRUE
    /\ pc = "start"
    /\ spawn_i = 1
    /\ handles = <<>>
    /\ workers = [w \in 1..(n_threads - 1) |-> [status |-> "unspawned", vx_chunk |-> <<>>, pos |-> 0]]
    /\ tx_holders = {}
    /\ channel = <<>>
    /\ results = <<>>
    /\ asm_i = 0
    /\ tables = EmptyTables
    /\ DbOff
    /\ ClOff
    /\ EnOff
    /\ WcOff
    /\ AvOff
    /\ HsOff
    /\ IxOff
    /\ TcOff

SpecPar == InitPar /\ [][Next]_vars

\* --------------------------------------------------------------- SpecEntry
\* grid_search from its entry: the four input columns, the length check, one
\* serial search over a fixed grid with the kd-tree DBSCAN, the assembler.
EnIdsSet == {[i \in 1..n |-> i] : n \in 0..MaxEnLen}

EnCoordSet == SeqsUpTo({0}, MaxEnLen)

EnDtsSet == SeqsUpTo({0, 1}, MaxEnLen)

EnVxs == <<0>>

EnVys == <<0, 1>>

\* the check "xs.len() != ys.len() || xs.len() != dts.len()" passes
LengthsOk(xs, ys, dts) == ~(Len(xs) # Len(ys) \/ Len(xs) # Len(dts))

\* xs.iter().zip(ys.iter()).zip(dts.iter()).map(XYTPoint::new).collect()
ZipPoints(xs, ys, dts) ==
    [i \in 1..Min({Len(xs), Len(ys), Len(dts)}) |-> XYTPoint(xs[i], ys[i], dts[i])]

\* cluster_grid_search(&points, vxs, vys, DBSCAN, 1.0, 1, 1): the serial loops
EnSearchResults(pts) ==
    [k \in 1..Len(GridOrder(EnVxs, EnVys)) |->
        LET pair == GridOrder(EnVxs, EnVys)[k]
        IN  (CHOOSE c \in GridCell(pts, pair.vx, pair.vy, "DBSCAN", 1, 1) : TRUE).result]

\* ids.value(i) is asked for a position the ids array does not have
IdsValuePanics(result, ids) ==
    \E i \in 1..Len(result.cluster_labels) : result.cluster_labels[i] >= 0 /\ i > Len(ids)

InitEntry ==
    /\ en_ids \in EnIdsSet
    /\ en_xs \in EnCoordSet
    /\ en_ys \in EnCoordSet
    /\ en_dts \in EnDtsSet
    /\ en_pc = "entry"
    /\ en_results = <<>>
    /\ en_asm_i = 0
    /\ en_tables = EmptyTables
    /\ DbOff
    /\ ClOff
    /\ GsOff
    /\ WcOff
    /\ AvOff
    /\ HsOff
    /\ IxOff
    /\ TcOff

\* the conversions and the length check at the head of grid_search
EnValidate ==
    /\ en_pc = "entry"
    /\ en_pc' = IF LengthsOk(en_xs, en_ys, en_dts) THEN "search" ELSE "error"
    /\ UNCHANGED <<en_ids, en_xs, en_ys, en_dts, en_results, en_asm_i, en_tables>>
    /\ UNCHANGED <<dbvars, clvars, gsvars, wcvars, avvars, hsvars, ixvars, tcvars>>

\* the points are built and cluster_grid_search is called
EnSearch ==
    /\ en_pc = "search"
    /\ en_results' = EnSearchResults(ZipPoints(en_xs, en_ys, en_dts))
    /\ en_pc' = "assemble"
    /\ UNCHANGED <<en_ids, en_xs, en_ys, en_dts, en_asm_i, en_tables>>
    /\ UNCHANGED <<dbvars, clvars, gsvars, wcvars, avvars, hsvars, ixvars, tcvars>>

\* one iteration of "for result in results.into_iter()"
EnAssemble ==
    /\ en_pc = "assemble"
    /\ en_asm_i < Len(en_results)
    /\ IF IdsValuePanics(en_results[en_asm_i + 1], en_ids)
       THEN en_pc' = "panicked" /\ UNCHANGED <<en_asm_i, en_tables>>
       ELSE /\ en_tables' = AssembleResult(en_tables, en_results[en_asm_i + 1], en_ids, en_dts)
            /\ en_asm_i' = en_asm_i + 1
            /\ UNCHANGED en_pc
    /\ UNCHANGED <<en_ids, en_xs, en_ys, en_dts, en_results>>
    /\ UNCHANGED <<dbvars, clvars, gsvars, wcvars, avvars, hsvars, ixvars, tcvars>>

\* the two tables are built and returned
EnFinish ==
    /\ en_pc = "assemble"
    /\ en_asm_i = Len(en_results)
    /\ en_pc' = "done"
    /\ UNCHANGED <<en_ids, en_xs, en_ys, en_dts, en_results, en_asm_i, en_tables>>
    /\ UNCHANGED <<dbvars, clvars, gsvars, wcvars, avvars, hsvars, ixvars, tcvars>>

NextEntry == EnValidate \/ EnSearch \/ EnAssemble \/ EnFinish

SpecEntry == InitEntry /\ [][NextEntry]_vars

\* --------------------------------------------------------------- SpecChunk
\* work_chunk_size applied to bounded arguments
InitChunk ==
    /\ wc_threads \in 1..MaxWcThreads
    /\ wc_n \in 0..MaxWcN
    /\ wc_pc = "call"
    /\ wc_out = 0
    /\ DbOff
    /\ ClOff
    /\ GsOff
    /\ EnOff
    /\ AvOff
    /\ HsOff
    /\ IxOff
    /\ TcOff

\* one call of work_chunk_size
WcCall ==
    /\ wc_pc = "call"
    /\ wc_out' = work_chunk_size(wc_threads, wc_n)
    /\ wc_pc' = "done"
    /\ UNCHANGED <<wc_threads, wc_n>>
    /\ UNCHANGED <<dbvars, clvars, gsvars, envars, avvars, hsvars, ixvars, tcvars>>

NextChunk == WcCall

SpecChunk == InitChunk /\ [][NextChunk]_vars

\* ------------------------------------------------------------ SpecVelocity
\* apply_velocity applied to bounded arguments
AvPointSet == {XYTPoint(x, y, t) : x \in 0..1, y \in 0..1, t \in 0..2}

AvVelSet == -1..1

InitVelocity ==
    /\ av_points \in SeqsUpTo(AvPointSet, MaxAvPts)
    /\ av_vx \in AvVelSet
    /\ av_vy \in AvVelSet
    /\ av_pc = "call"
    /\ av_out = <<>>
    /\ DbOff
    /\ ClOff
    /\ GsOff
    /\ EnOff
    /\ WcOff
    /\ HsOff
    /\ IxOff
    /\ TcOff

\* one call of apply_velocity; points is borrowed, not changed
AvCall ==
    /\ av_pc = "call"
    /\ av_out' = apply_velocity(av_vx, av_vy, av_points)
    /\ av_pc' = "done"
    /\ UNCHANGED <<av_points, av_vx, av_vy>>
    /\ UNCHANGED <<dbvars, clvars, gsvars, envars, wcvars, hsvars, ixvars, tcvars>>

NextVelocity == AvCall

SpecVelocity == InitVelocity /\ [][NextVelocity]_vars

\* -------------------------------------------------------- SpecHotspotSteps
\* find_clusters_hotspot2d statement by statement: the four quantizations
\* with their label vectors, then the merge
\* x = 0 and x = 1 share a cell only in the quantizations shifted in x, y = 0
\* and y = 1 only in those shifted in y
Hs2dPointSet == {XYPoint(x, y) : x \in {0, 1, 3}, y \in 0..1}

HsMinSet == {2, 3}

\* the shift (dx, dy), in halves of eps, of the k-th quantization
ShiftOf(k) == <<<<0, 0>>, <<1, 0>>, <<0, 1>>, <<1, 1>>>>[k]

InitHotspotSteps ==
    /\ hs_points \in SeqsUpTo(Hs2dPointSet, MaxHsPts)
    /\ hs_eps = 2
    /\ hs_min \in HsMinSet
    /\ hs_pc = "label"
    /\ hs_quantized = <<>>
    /\ hs_maps = <<>>
    /\ hs_labels = <<>>
    /\ hs_out = <<>>
    /\ DbOff
    /\ ClOff
    /\ GsOff
    /\ EnOff
    /\ WcOff
    /\ AvOff
    /\ IxOff
    /\ TcOff

\* the next of the four runs: quantize, hist2d, label_cluster_map, the map
\* iterated in any order
HsQuantizeLabel ==
    /\ hs_pc = "label"
    /\ Len(hs_labels) < 4
    /\ LET k == Len(hs_labels) + 1
           quantized == quantize(ShiftedPoints(hs_points, hs_eps, ShiftOf(k)[1], ShiftOf(k)[2]),
                                 hs_eps)
           map == hist2d(quantized)
       IN  /\ hs_quantized' = Append(hs_quantized, quantized)
           /\ hs_maps' = Append(hs_maps, map)
           /\ \E iter \in Perms(DOMAIN map) :
                 hs_labels' = Append(hs_labels, label_cluster_map(quantized, map, hs_min, iter))
    /\ UNCHANGED <<hs_points, hs_eps, hs_min, hs_pc, hs_out>>
    /\ UNCHANGED <<dbvars, clvars, gsvars, envars, wcvars, avvars, ixvars, tcvars>>

\* merge_cluster_labels(&labels1, &labels2, &labels3, &labels4) is returned
HsMerge ==
    /\ hs_pc = "label"
    /\ Len(hs_labels) = 4
    /\ hs_out' = merge_cluster_labels(hs_labels[1], hs_labels[2], hs_labels[3], hs_labels[4])
    /\ hs_pc' = "done"
    /\ UNCHANGED <<hs_points, hs_eps, hs_min, hs_quantized, hs_maps, hs_labels>>
    /\ UNCHANGED <<dbvars, clvars, gsvars, envars, wcvars, avvars, ixvars, tcvars>>

NextHotspotSteps == HsQuantizeLabel \/ HsMerge

SpecHotspotSteps == InitHotspotSteps /\ [][NextHotspotSteps]_vars

\* --------------------------------------------------------------- SpecIndex
\* One neighbourhood query on an index built by from_points, for inputs of
\* a few points and of about 2^16 points.  The points at the positions
\* ix_near lie at the origin, all the others at (3, 0); the radius is 1.
IxSizes == 1..MaxIxSmall \cup {65536, 65537}

IxPoints(n, near) == [i \in 1..n |-> XYPoint(IF i \in near THEN 0 ELSE 3, 0)]

\* the positions from which the queried point and the points at the origin
\* are drawn: the first and the last ones
IxEnds(n) == {i \in 1..n : i <= MaxIxNear \/ i > n - MaxIxNear}

InitIndex ==
    /\ ix_alg \in DbscanTags
    /\ ix_n \in IxSizes
    /\ ix_q \in IxEnds(ix_n)
    /\ ix_near \in {{ix_q}, IxEnds(ix_n)}
    /\ ix_pc = "query"
    /\ ix_out = {}
    /\ DbOff
    /\ ClOff
    /\ GsOff
    /\ EnOff
    /\ WcOff
    /\ AvOff
    /\ HsOff
    /\ TcOff

\* T::from_points(points) followed by tree.neighbors(&points[q], eps)
IxQuery ==
    /\ ix_pc = "query"
    /\ ix_out' = neighbors(ix_alg, IxPoints(ix_n, ix_near), IxPoints(ix_n, ix_near)[ix_q], 1)
    /\ ix_pc' = "done"
    /\ UNCHANGED <<ix_alg, ix_n, ix_near, ix_q>>
    /\ UNCHANGED <<dbvars, clvars, gsvars, envars, wcvars, avvars, hsvars, tcvars>>

NextIndex == IxQuery

SpecIndex == InitIndex /\ [][NextIndex]_vars

\* ---------------------------------------------------------------- SpecCell
\* A ThorCell filled by add_point and add_points calls, then searched once.
TcDts == 1..MaxTcDt

TcPointSet == {XYPoint(0, 0), XYPoint(1, 0)}

TcEpsSet == {1, 2}

TcMinSet == {1, 2}

TcVxSet == {0, 1}

TcCell == [subtrees |-> tc_subtrees, dts |-> tc_dts, sorted_dts |-> tc_sorted_dts]

\* the number of points the cell holds
RECURSIVE TcSize(_)
TcSize(subtrees) ==
    IF subtrees = <<>> THEN 0 ELSE Len(Head(subtrees).points) + TcSize(Tail(subtrees))

InitCell ==
    /\ tc_subtrees = NewCell.subtrees
    /\ tc_dts = NewCell.dts
    /\ tc_sorted_dts = NewCell.sorted_dts
    /\ tc_pc = "build"
    /\ tc_out = CellPanic
    /\ DbOff
    /\ ClOff
    /\ GsOff
    /\ EnOff
    /\ WcOff
    /\ AvOff
    /\ HsOff
    /\ IxOff

\* cell.add_point(dt, point)
TcAddPoint ==
    /\ tc_pc = "build"
    /\ TcSize(tc_subtrees) < MaxTcPts
    /\ \E dt \in TcDts, point \in TcPointSet :
          \E cell \in add_point(TcCell, dt, point) :
             /\ tc_subtrees' = cell.subtrees
             /\ tc_dts' = cell.dts
             /\ tc_sorted_dts' = cell.sorted_dts
    /\ UNCHANGED <<tc_pc, tc_out>>
    /\ UNCHANGED <<dbvars, clvars, gsvars, envars, wcvars, avvars, hsvars, ixvars>>

\* cell.add_points(dt, points) with one or two points
TcAddPoints ==
    /\ tc_pc = "build"
    /\ \E dt \in TcDts, pts \in SeqsUpTo(TcPointSet, 2) \ {<<>>} :
          /\ TcSize(tc_subtrees) + Len(pts) <= MaxTcPts
          /\ \E cell \in add_points(TcCell, dt, pts) :
                /\ tc_subtrees' = cell.subtrees
                /\ tc_dts' = cell.dts
                /\ tc_sorted_dts' = cell.sorted_dts
    /\ UNCHANGED <<tc_pc, tc_out>>
    /\ UNCHANGED <<dbvars, clvars, gsvars, envars, wcvars, avvars, hsvars, ixvars>>

\* cell.find_clusters2(eps, min_weight, vx, 0.0)
TcFindClusters2 ==
    /\ tc_pc = "build"
    /\ \E eps1 \in TcEpsSet, min_weight \in TcMinSet, vx \in TcVxSet :
          tc_out' \in find_clusters2(TcCell, eps1, min_weight, vx, 0)
    /\ tc_pc' = "done"
    /\ UNCHANGED <<tc_subtrees, tc_dts, tc_sorted_dts>>
    /\ UNCHANGED <<dbvars, clvars, gsvars, envars, wcvars, avvars, hsvars, ixvars>>

NextCell == TcAddPoint \/ TcAddPoints \/ TcFindClusters2

SpecCell == InitCell /\ [][NextCell]_vars

\* ------------------------------------------------------------------ claims
Returned == pc \in {"returned", "done"}

WorkerPanicked == \E w \in DOMAIN workers : workers[w].status = "panicked"

\* C1: for every n_threads >= 1 the search returns exactly |vxs| * |vys|
\* results, one for each (vx, vy) pair of the grid.
C1_OneResultPerPair ==
    Returned =>
        /\ Len(results) = Len(vxs) * Len(vys)
        /\ \A i \in 1..Len(vxs), j \in 1..Len(vys) :
              \E k \in 1..Len(results) : results[k].vx = vxs[i] /\ results[k].vy = vys[j]

\* the (vx, vy, member set) clusters of a result sequence
ClusterSets(rs) ==
    UNION {{<<rs[k].vx, rs[k].vy, {i \in 1..Len(rs[k].cluster_labels) :
                                      rs[k].cluster_labels[i] = l}>> :
               l \in {v \in Range(rs[k].cluster_labels) : v >= 0}} :
           k \in 1..Len(rs)}

\* C2: the clusters found with n_threads = k are those found with
\* n_threads = 1, under every interleaving of the workers: for every pair of
\* the grid, the clusters returned for it are those of the serial loop body.
C2_ParallelEquivalence ==
    Returned =>
        \A i \in 1..Len(vxs), j \in 1..Len(vys) :
            \E c \in GridCell(points, vxs[i], vys[j], alg, eps, min_cluster_size) :
                /\ ~c.panic
                /\ ClusterSets(<<c.result>>) =
                      {cs \in ClusterSets(results) : cs[1] = vxs[i] /\ cs[2] = vys[j]}

\* C3: every label vector produced for a (vx, vy), sent or returned, serial or
\* parallel, has one entry per observation (none for no observations).
C3_LabelLength ==
    /\ \A k \in 1..Len(channel) : Len(channel[k].cluster_labels) = Len(points)
    /\ \A k \in 1..Len(results) : Len(results[k].cluster_labels) = Len(points)

C3_Witness ==
    /\ pc = "returned"
    /\ n_threads > 1
    /\ Len(points) = 2
    /\ \E k \in 1..Len(results) :
          results[k].cluster_labels[1] = -1 /\ results[k].cluster_labels[2] = -1
    /\ \E k \in 1..Len(results) : results[k].cluster_labels[1] >= 0

PositiveLabels(l) == {v \in Range(l) : v > 0}

DenseFromOne(l) ==
    \A i \in 1..Len(l) : l[i] = -1 \/ l[i] \in 1..Cardinality(PositiveLabels(l))

\* C4 as stated: for every algorithm tag each label is -1 or a 1-based id in
\* [1, K], K the number of distinct positive labels.
C4_DenseOneBased ==
    (cl_pc = "done" /\ ~cl_out.panic) => DenseFromOne(cl_out.labels)

\* C4 as amended: the DBSCAN tags give -1 or a 1-based id in [1, K]; Hotspot2D
\* gives -1 or a 0-based id smaller than the number of points.
C4_LabelRange ==
    (cl_pc = "done" /\ ~cl_out.panic) =>
        IF cl_alg \in DbscanTags THEN DenseFromOne(cl_out.labels)
        ELSE \A i \in 1..Len(cl_out.labels) :
                cl_out.labels[i] = -1 \/ cl_out.labels[i] \in 0..(Len(cl_points) - 1)

\* a DBSCAN tag has found two clusters, numbered 1 and 2
C4_Witness ==
    /\ cl_pc = "done"
    /\ ~cl_out.panic
    /\ cl_alg \in DbscanTags
    /\ \E i, j \in 1..Len(cl_out.labels) : cl_out.labels[i] = 1 /\ cl_out.labels[j] = 2

\* C5: whatever results the assembler has consumed, the cluster_ids of the
\* summary table are 1..G in order, one per (vx, vy) row, so clusters of
\* different results never share an id.
C5_GlobalIds ==
    /\ tables.cluster_id_builder = [g \in 1..tables.cluster_id |-> g]
    /\ Len(tables.vx_builder) = tables.cluster_id
    /\ Len(tables.vy_builder) = tables.cluster_id

\* two consumed results carry the same local label and got different ids
C5_Witness ==
    /\ asm_i >= 2
    /\ \E a, b \in 1..asm_i :
          /\ a # b
          /\ \E l \in Range(results[a].cluster_labels) \cap Range(results[b].cluster_labels) :
                l >= 0
    /\ Len(tables.cluster_id_builder) >= 2

\* the observations with a membership row for cluster cid
MembersOf(cid) ==
    {tables.obs_id_members_builder[m] :
        m \in {n \in 1..Len(tables.cluster_id_members_builder) :
                  tables.cluster_id_members_builder[n] = cid}}

\* C6: the arc_length of every summary row is the largest dt minus the
\* smallest dt over the observations with a membership row for its cluster.
C6_ArcLength ==
    \A r \in 1..Len(tables.arc_length_builder) :
        LET ts == {Dts[o] : o \in MembersOf(tables.cluster_id_builder[r])}
        IN  ts # {} /\ tables.arc_length_builder[r] = Max(ts) - Min(ts)

\* a cluster whose later member has the smaller dt, and a single-time cluster
C6_Witness ==
    /\ pc = "done"
    /\ Len(points) = 2
    /\ points[1].t > points[2].t
    /\ \E r \in 1..Len(tables.arc_length_builder) :
          /\ tables.arc_length_builder[r] = 1
          /\ MembersOf(tables.cluster_id_builder[r]) = {1, 2}
    /\ \E r \in 1..Len(tables.arc_length_builder) : tables.arc_length_builder[r] = 0

ClusterMembers(labels, k) == {i \in 1..Len(labels) : labels[i] = k}

\* C7: every cluster of the DBSCAN primitive has at least min_weight members
\* and every member has another member of its cluster within eps.  Stated
\* for min_weight >= 2: with min_weight <= 1 a lone point is a cluster of its
\* own.
C7_LocalDensity ==
    (db_pc = "done" /\ db_min >= 2) =>
        \A k \in {l \in Range(db_out) : l > 0} :
            /\ Cardinality(ClusterMembers(db_out, k)) >= db_min
            /\ \A m \in ClusterMembers(db_out, k) :
                  \E o \in ClusterMembers(db_out, k) \ {m} :
                      InRadius(db_alg, squared_euclidean(db_points[m], db_points[o]), db_eps)

\* C8: with n_threads = 1 result number (i-1) * |vys| + j (counted from 1)
\* carries (vxs[i], vys[j]).
C8_RowMajor ==
    (Returned /\ n_threads = 1) =>
        /\ Len(results) = Len(vxs) * Len(vys)
        /\ \A i \in 1..Len(vxs), j \in 1..Len(vys) :
              /\ results[(i - 1) * Len(vys) + j].vx = vxs[i]
              /\ results[(i - 1) * Len(vys) + j].vy = vys[j]

C8_Witness ==
    /\ pc = "returned"
    /\ n_threads = 1
    /\ Len(vxs) >= 2
    /\ Len(vys) >= 2
    /\ results[2].vx = vxs[1]
    /\ results[2].vy = vys[2]

\* C9: with n_threads > 1, once the calling thread drains the channel, the
\* drain ends and the search returns, unless a worker has panicked.
C9_DrainEnds ==
    (pc = "drain" /\ n_threads > 1) ~> (pc = "returned" \/ WorkerPanicked)

\* the search has returned after its workers sent results and finished
C9_Witness ==
    /\ pc = "returned"
    /\ n_threads > 1
    /\ Len(handles) >= 1
    /\ \A j \in 1..Len(handles) : workers[handles[j]].status = "done"
    /\ Len(results) >= 2

\* C10: when a worker has panicked the search does not return: no result
\* reaches the assembler and both tables stay unbuilt.
C10_NoPartialResult ==
    WorkerPanicked => (~Returned /\ asm_i = 0 /\ tables = EmptyTables)

\* the panic surfaced at the join, after results of the run had been drained
C10_Witness ==
    /\ pc = "panicked"
    /\ WorkerPanicked
    /\ Len(results) >= 1
    /\ channel = <<>>

\* C11: a search with an empty vxs, an empty vys or no observations ends
\* normally for every n_threads >= 1 (the platform reporting its core ids),
\* and both tables it yields are empty.
C11_EmptyInputs ==
    (have_core_ids /\ (vxs = <<>> \/ vys = <<>> \/ points = <<>>)) =>
        /\ pc # "panicked"
        /\ ~WorkerPanicked
        /\ (pc = "done" => tables = EmptyTables)

\* C12: when ids, xs, ys and dts do not all have the same length, grid_search
\* stops with an error at its entry: cluster_grid_search is never called and
\* no table row is built.
C12_RejectsMismatch ==
    ~(Len(en_ids) = Len(en_xs) /\ Len(en_xs) = Len(en_ys) /\ Len(en_ys) = Len(en_dts)) =>
        /\ en_pc \in {"entry", "error"}
        /\ en_results = <<>>
        /\ en_tables = EmptyTables

\* the observations of S lie on one linear track of velocity (vx, vy)
OnTrack(S, vx, vy) ==
    \A i, j \in S :
        /\ points[i].x - vx * points[i].t = points[j].x - vx * points[j].t
        /\ points[i].y - vy * points[i].t = points[j].y - vy * points[j].t

TrackInOneCluster(r) ==
    \A S \in SUBSET (1..Len(points)) :
        (S # {} /\ Cardinality(S) >= min_cluster_size /\ OnTrack(S, r.vx, r.vy)) =>
            \E l \in 1..Len(points) : \A i \in S : r.cluster_labels[i] = l

\* C13: with the DBSCAN algorithm, in the grid result of (vx, vy) every group
\* of at least min_weight observations lying exactly on one linear track of
\* velocity (vx, vy) carries one and the same positive label.
C13_TrackOneCluster ==
    alg = "DBSCAN" =>
        /\ \A k \in 1..Len(results) : TrackInOneCluster(results[k])
        /\ \A k \in 1..Len(channel) : TrackInOneCluster(channel[k])

\* two observations on the track of velocity (1, 0): one cluster at vx = 1,
\* none at vx = 0
C13_Witness ==
    /\ alg = "DBSCAN"
    /\ min_cluster_size = 2
    /\ Returned
    /\ points = <<XYTPoint(0, 0, 0), XYTPoint(1, 0, 1)>>
    /\ \E k \in 1..Len(results) :
          results[k].vx = 1 /\ results[k].vy = 0 /\ results[k].cluster_labels = <<1, 1>>
    /\ \E k \in 1..Len(results) :
          results[k].vx = 0 /\ results[k].vy = 0 /\ results[k].cluster_labels = <<-1, -1>>

\* the points of pts listed in the order p
Permuted(pts, p) == [i \in 1..Len(pts) |-> pts[p[i]]]

\* a labels the points as given, b labels them listed in the order p: both
\* leave the same points without a cluster and group the others alike
SamePartition(a, b, p) ==
    \A i, j \in 1..Len(b) :
        /\ (a[p[i]] = -1) <=> (b[i] = -1)
        /\ (a[p[i]] = a[p[j]]) <=> (b[i] = b[j])

\* C14: the partition induced by the merged Hotspot2D labels is the same for
\* every permutation of the input and every iteration order of the cell
\* maps, up to a renaming of the labels.
C14_PartitionInvariant ==
    (cl_pc = "done" /\ cl_alg = "Hotspot2D") =>
        \A p \in Perms(1..Len(cl_points)) :
            \A l \in find_clusters_hotspot2d(Permuted(cl_points, p), cl_eps, cl_min) :
                SamePartition(cl_out.labels, l, p)

\* the positions of the observations a result puts into a cluster, increasing
LabelledObs(r) == SortedSeq({i \in 1..Len(r.cluster_labels) : r.cluster_labels[i] >= 0})

\* the (result, observation) pairs of the first k results, in assembler order
RECURSIVE RowsOf(_)
RowsOf(k) ==
    IF k = 0 THEN <<>>
    ELSE RowsOf(k - 1) \o [j \in 1..Len(LabelledObs(results[k])) |->
                              [res |-> k, obs |-> LabelledObs(results[k])[j]]]

\* C15: the membership table holds, for each consumed result in turn, exactly
\* one row per observation with a label >= 0 and none for label -1; two rows
\* carry the same cluster id exactly when they come from the same result and
\* the same local label.
C15_MembershipRows ==
    LET rows == RowsOf(asm_i)
        cids == tables.cluster_id_members_builder
        obs == tables.obs_id_members_builder
        LabelAt(m) == results[rows[m].res].cluster_labels[rows[m].obs]
    IN  /\ Len(cids) = Len(rows)
        /\ Len(obs) = Len(rows)
        /\ \A m \in 1..Len(rows) : obs[m] = ObsIds[rows[m].obs]
        /\ \A m, n \in 1..Len(rows) :
              (cids[m] = cids[n]) <=> (rows[m].res = rows[n].res /\ LabelAt(m) = LabelAt(n))

\* a consumed result without any cluster, and an observation that is a member
\* of clusters of two results
C15_Witness ==
    /\ pc = "done"
    /\ Len(points) = 2
    /\ \E k \in 1..asm_i : \A i \in 1..Len(points) : results[k].cluster_labels[i] = -1
    /\ \E m, n \in 1..Len(tables.obs_id_members_builder) :
          /\ tables.obs_id_members_builder[m] = tables.obs_id_members_builder[n]
          /\ tables.cluster_id_members_builder[m] # tables.cluster_id_members_builder[n]

\* C16: work_chunk_size(n_threads, n) is ceil(n / n_threads), the least c
\* with c * n_threads >= n: n / n_threads when n_threads divides n, and
\* floor(n / n_threads) + 1 otherwise.
C16_ChunkSizeIsCeil ==
    wc_pc = "done" =>
        /\ wc_out * wc_threads >= wc_n
        /\ (wc_out - 1) * wc_threads < wc_n
        /\ (wc_n % wc_threads = 0) => wc_out * wc_threads = wc_n
        /\ (wc_n % wc_threads # 0) => wc_out = (wc_n \div wc_threads) + 1

\* the case (3, 16) -> 6 of test_work_chunk_size
C16_Witness == wc_pc = "done" /\ wc_threads = 3 /\ wc_n = 16 /\ wc_out = 6

\* the expansion step that pops n finds it Undefined with too few neighbours
PopsSparseUndefined(n) ==
    /\ db_pc = "expand"
    /\ db_queue # <<>>
    /\ n \in db_queue[Len(db_queue)]
    /\ db_labels[n] = Undefined
    /\ Cardinality(neighbors(db_alg, db_points, db_points[n], db_eps)) < db_min
    /\ db_queue' = PopFrom(db_queue, n)

\* C17: an expansion step of cluster k that pops a neighbour still Undefined
\* whose own neighbourhood has fewer than min_weight points labels it
\* Border(k).
C17_SparseNeighbourIsBorder ==
    [][\A n \in 1..Len(db_points) :
          PopsSparseUndefined(n) => db_labels'[n] = Border(db_cluster_idx)]_vars

\* C18: a Noise point changes only by being popped in an expansion, which
\* makes it Border of the open cluster and appends nothing to the work list;
\* a Border point never changes again, so it never becomes Core.
C18_NoiseNotReexpanded ==
    [][\A n \in 1..Len(db_points) :
          /\ db_labels[n] = Noise =>
                \/ db_labels'[n] = Noise
                \/ /\ db_pc = "expand"
                   /\ db_labels'[n] = Border(db_cluster_idx)
                   /\ db_queue' = PopFrom(db_queue, n)
          /\ db_labels[n].c = "Border" => db_labels'[n] = db_labels[n]]_vars

\* a run that upgraded a Noise point to Border has ended
C18_Witness ==
    /\ db_pc = "done"
    /\ \E n \in 1..Len(db_points) : db_labels[n].c = "Border" /\ db_out[n] >= 1

\* C19: for a fixed input order the label vector does not depend on the
\* order in which the neighbourhood queries list their results: whatever
\* the pops, each cluster ends with the members that dbscan computes with
\* every query result in increasing index order.
C19_QueryOrderIndependent ==
    db_pc = "done" =>
        LET ref == dbscan(db_alg, db_points, db_eps, db_min)
        IN  /\ Len(db_out) = Len(ref)
            /\ \A k \in 1..Len(db_points) : ClusterMembers(db_out, k) = ClusterMembers(ref, k)
            /\ ClusterMembers(db_out, -1) = ClusterMembers(ref, -1)

\* a cluster of three members has been expanded: its query results held
\* several indices that could be popped in any order
C19_Witness ==
    /\ db_pc = "done"
    /\ Len(db_points) = 3
    /\ ClusterMembers(db_out, 1) = {1, 2, 3}
    /\ \A n \in 1..3 : db_labels[n].c = "Core"

\* C20: at every point of a DBSCAN run the ids in use are 1..K without gaps,
\* K the number of clusters opened so far; cluster k holds the point that
\* opened it, and the points that opened the clusters come in the input in
\* the order of their ids.
C20_DiscoveryOrder ==
    LET out == FinalLabels(db_labels)
    IN  /\ Len(db_seeds) = db_cluster_idx
        /\ PositiveLabels(out) = 1..db_cluster_idx
        /\ \A i \in 1..Len(out) : out[i] = -1 \/ out[i] \in 1..db_cluster_idx
        /\ \A k \in 1..Len(db_seeds) : out[db_seeds[k]] = k
        /\ \A k1, k2 \in 1..Len(db_seeds) : k1 < k2 => db_seeds[k1] < db_seeds[k2]
        /\ db_pc = "done" => db_out = out

\* two clusters, the second opened between two members of the first
C20_Witness ==
    /\ db_pc = "done"
    /\ db_cluster_idx = 2
    /\ db_seeds = <<1, 2>>
    /\ db_out = <<1, 2, 1>>

\* the input positions linked to a position of S by a chain of points, each
\* within eps of the next
RECURSIVE ChainClosure(_)
ChainClosure(S) ==
    LET step == S \cup {j \in 1..Len(db_points) :
                           \E i \in S : InRadius(db_alg,
                                                  squared_euclidean(db_points[i], db_points[j]),
                                                  db_eps)}
    IN  IF step = S THEN S ELSE ChainClosure(step)

\* every two points of G are within eps of each other
Clique(G) ==
    \A i, j \in G : InRadius(db_alg, squared_euclidean(db_points[i], db_points[j]), db_eps)

\* no point of G is within eps of a point of H
Apart(G, H) ==
    \A i \in G, j \in H :
        ~InRadius(db_alg, squared_euclidean(db_points[i], db_points[j]), db_eps)

C22_AllCoreForMinOne ==
    (db_pc = "done" /\ db_min <= 1) =>
        \A n \in 1..Len(db_points) : db_labels[n].c = "Core" /\ db_out[n] >= 1

\* three points that are no neighbours of each other, min_weight = 1: every
\* point is the Core of its own cluster
C22_Witness ==
    /\ db_pc = "done"
    /\ db_min = 1
    /\ db_eps = 1
    /\ db_alg = "DBSCAN"
    /\ Len(db_points) = 3
    /\ db_out = <<1, 2, 3>>
    /\ \A n \in 1..3 : db_labels[n] = Core(n)

\* the query result of the stored point n itself
OwnNeighbors(n) == neighbors(db_alg, db_points, db_points[n], db_eps)

\* C23: every expansion step pops some index n of the last query result and
\* decides by the neighbourhood of n itself: if n has no cluster yet and its
\* own neighbourhood has at least min_weight points, n becomes Core of the
\* open cluster and exactly its own neighbours are appended to the work
\* list; otherwise nothing is appended and no point becomes Core.
C23_QueriesPoppedPoint ==
    [][(db_pc = "expand" /\ db_queue # <<>> /\ db_pc' = "expand") =>
          \E n \in db_queue[Len(db_queue)] :
              IF db_labels[n] \in {Undefined, Noise} /\ Cardinality(OwnNeighbors(n)) >= db_min
              THEN /\ db_labels' = [db_labels EXCEPT ![n] = Core(db_cluster_idx)]
                   /\ db_queue' = PushBatch(PopFrom(db_queue, n), OwnNeighbors(n))
              ELSE /\ db_queue' = PopFrom(db_queue, n)
                   /\ \A m \in 1..Len(db_points) :
                         db_labels'[m].c = "Core" => db_labels'[m] = db_labels[m]]_vars

\* a popped neighbour became Core although the point that opened its cluster
\* is not within eps of it: the run went on through its own neighbourhood
C23_Witness ==
    /\ db_pc = "done"
    /\ Len(db_points) = 3
    /\ db_seeds = <<1>>
    /\ \A n \in 1..3 : db_labels[n] = Core(1)
    /\ \E n \in 2..3 : 1 \notin OwnNeighbors(n)

\* the position of a velocity in its grid axis (the axes hold no value twice)
PosIn(axis, v) == CHOOSE i \in 1..Len(axis) : axis[i] = v

\* the place of a result's pair in the row-major walk of its vxs: vx outer,
\* vy inner
RowMajorRank(r) == (PosIn(vxs, r.vx) - 1) * Len(vys) + PosIn(vys, r.vy)

\* Do the two results come from the same worker?
SameWorker(r1, r2) ==
    \E w \in DOMAIN workers :
        r1.vx \in Range(workers[w].vx_chunk) /\ r2.vx \in Range(workers[w].vx_chunk)

\* everything received so far, followed by what is still in the channel
Delivered == results \o channel

\* C24: in parallel mode any two results of the same worker stand in the
\* output in the order in which the worker produced them (row-major within its
\* chunk), whatever the interleaving of the workers.
C24_WorkerOrderKept ==
    n_threads > 1 =>
        \A a, b \in 1..Len(Delivered) :
            (a < b /\ SameWorker(Delivered[a], Delivered[b])) =>
                RowMajorRank(Delivered[a]) < RowMajorRank(Delivered[b])

\* two workers with two results each, returned interleaved
C24_Witness ==
    /\ n_threads = 3
    /\ Returned
    /\ Len(results) = 4
    /\ SameWorker(results[1], results[3])
    /\ SameWorker(results[2], results[4])
    /\ ~SameWorker(results[1], results[2])

CeilDiv(a, b) == (a + b - 1) \div b

\* the workers that were spawned
Spawned == Range(handles)

\* the results a worker has delivered so far
DeliveredBy(w) ==
    {k \in 1..Len(Delivered) : Delivered[k].vx \in Range(workers[w].vx_chunk)}

\* C25: with n_threads > 1 a spawn loop that has run to its end has spawned
\* exactly min(n_threads - 1, number of chunks) workers; each worker owns a
\* non-empty contiguous piece of vxs of at most ceil(|vxs| / n_threads)
\* values, no two pieces overlap, and every result was computed by a worker:
\* the calling thread only drains.
C25_WorkersOwnChunks ==
    n_threads > 1 =>
        LET size == CeilDiv(Len(vxs), n_threads)
        IN  /\ Len(handles) = Cardinality(Spawned)
            /\ \A w \in DOMAIN workers : w \in Spawned <=> workers[w].status # "unspawned"
            /\ \A w \in Spawned :
                  /\ workers[w].vx_chunk # <<>>
                  /\ Len(workers[w].vx_chunk) <= size
                  /\ \E first \in 1..Len(vxs) :
                        workers[w].vx_chunk =
                            SubSeq(vxs, first, first + Len(workers[w].vx_chunk) - 1)
            /\ \A w1, w2 \in Spawned :
                  w1 # w2 => Range(workers[w1].vx_chunk) \cap Range(workers[w2].vx_chunk) = {}
            /\ pc \in {"drain", "join", "returned", "done"} =>
                  Cardinality(Spawned) = Min({n_threads - 1, CeilDiv(Len(vxs), size)})
            /\ \A k \in 1..Len(Delivered) : \E w \in Spawned : k \in DeliveredBy(w)
            /\ \A w \in Spawned : Cardinality(DeliveredBy(w)) = workers[w].pos

\* three threads and one vx: one chunk, one worker, the second never spawned
C25_Witness ==
    /\ n_threads = 3
    /\ Len(vxs) = 1
    /\ Len(vys) = 2
    /\ Returned
    /\ Spawned = {1}
    /\ workers[2].status = "unspawned"
    /\ Len(results) = 2

\* three threads and two vxs: two chunks of one vx, two workers
C25_WitnessTwoWorkers ==
    /\ n_threads = 3
    /\ Len(vxs) = 2
    /\ Returned
    /\ Spawned = {1, 2}
    /\ workers[1].vx_chunk = <<0>>
    /\ workers[2].vx_chunk = <<1>>

\* C26: a parallel search over a non-empty vxs fails only when the clustering
\* of a worker fails, whether or not the platform reports core ids.
C26_PinningIndependent ==
    (n_threads > 1 /\ vxs # <<>> /\ pc = "panicked") => WorkerPanicked

\* C27: apply_velocity returns one point per observation, in the order of the
\* observations, the i-th being (x - vx*t, y - vy*t) of the i-th observation,
\* and leaves the observations as they were.
C27_ApplyVelocity ==
    [][av_pc = "call" =>
          /\ av_points' = av_points
          /\ Len(av_out') = Len(av_points)
          /\ \A i \in 1..Len(av_points) :
                /\ av_out'[i].x = av_points[i].x - av_vx * av_points[i].t
                /\ av_out'[i].y = av_points[i].y - av_vy * av_points[i].t]_vars

\* two observations at different times, a velocity with both signs
C27_Witness ==
    /\ av_pc = "done"
    /\ av_points = <<XYTPoint(0, 0, 1), XYTPoint(1, 1, 2)>>
    /\ av_vx = 1
    /\ av_vy = -1
    /\ av_out = <<XYPoint(-1, 1), XYPoint(-1, 3)>>

\* the points that share the cell of point i in the k-th quantization
CellMates(k, i) == {j \in 1..Len(hs_points) : hs_quantized[k][j] = hs_quantized[k][i]}

\* Does the cell of point i in the k-th quantization hold enough points?
InQualifyingCell(k, i) == Cardinality(CellMates(k, i)) >= hs_min

\* the qualifying cells of the k-th quantization, each as the set of its points
QualifyingCells(k) == {CellMates(k, i) : i \in {j \in 1..Len(hs_points) : InQualifyingCell(k, j)}}

\* C28: within one quantization a point gets a label other than -1 iff its
\* cell holds at least min_size points; the points of two qualifying cells
\* carry the same label iff the cells are the same; the labels used are
\* exactly 0..H-1 for H qualifying cells.
C28_LabelsOfOneQuantization ==
    \A k \in 1..Len(hs_labels) :
        LET l == hs_labels[k]
            n == Len(hs_points)
            H == Cardinality(QualifyingCells(k))
        IN  /\ Len(l) = n
            /\ \A i \in 1..n : l[i] # -1 <=> InQualifyingCell(k, i)
            /\ \A i, j \in 1..n :
                  (InQualifyingCell(k, i) /\ InQualifyingCell(k, j)) =>
                      (l[i] = l[j] <=> hs_quantized[k][i] = hs_quantized[k][j])
            /\ {l[i] : i \in {j \in 1..n : InQualifyingCell(k, j)}} = 0..(H - 1)

\* two qualifying cells in the unshifted quantization, the second cell of the
\* input iterated first
C28_Witness ==
    /\ hs_min = 2
    /\ hs_points = <<XYPoint(0, 0), XYPoint(0, 0), XYPoint(3, 0), XYPoint(3, 0)>>
    /\ Len(hs_labels) >= 1
    /\ hs_labels[1] = <<1, 1, 0, 0>>

\* the label of point i in the first of the four vectors that has one
FirstLabel(i) ==
    LET has == {k \in 1..4 : hs_labels[k][i] # -1}
    IN  IF has = {} THEN -1 ELSE hs_labels[Min(has)][i]

\* C29: the merged vector holds, for each point, the first label other than
\* -1 among the four vectors in the order unshifted, (+eps/2, 0), (0, +eps/2),
\* (+eps/2, +eps/2), and -1 when all four are -1; a point is noise in the
\* output iff it lies in no qualifying cell of any of the four quantizations.
C29_MergeFirstLabel ==
    hs_pc = "done" =>
        /\ Len(hs_out) = Len(hs_points)
        /\ \A i \in 1..Len(hs_points) :
              /\ hs_out[i] = FirstLabel(i)
              /\ hs_out[i] = -1 <=> \A k \in 1..4 : hs_labels[k][i] = -1
              /\ hs_out[i] = -1 <=> \A k \in 1..4 : ~InQualifyingCell(k, i)

\* the first point has its label from the third vector, the third point from
\* the first vector, the fourth point is noise
C29_Witness ==
    /\ hs_pc = "done"
    /\ Len(hs_points) = 4
    /\ hs_labels[1][1] = -1 /\ hs_labels[2][1] = -1 /\ hs_labels[3][1] # -1
    /\ hs_labels[1][3] # -1
    /\ hs_out[4] = -1
    /\ hs_out[1] = hs_labels[3][1]

\* C30: when one and the same group of points is the only qualifying cell in
\* each of the four quantizations, the group gets label 0 and every other
\* point -1.
C30_SingleGroupLabelZero ==
    hs_pc = "done" =>
        \A G \in QualifyingCells(1) :
            (\A k \in 1..4 : QualifyingCells(k) = {G}) =>
                hs_out = [i \in 1..Len(hs_points) |-> IF i \in G THEN 0 ELSE -1]

\* two coincident points are the only qualifying cell of every quantization;
\* a third point stays alone in each of them
C30_Witness ==
    /\ hs_pc = "done"
    /\ hs_min = 2
    /\ hs_points = <<XYPoint(3, 1), XYPoint(0, 0), XYPoint(0, 0)>>
    /\ \A k \in 1..4 : QualifyingCells(k) = {{2, 3}}
    /\ hs_out = <<-1, 0, 0>>

\* the sends done so far, as (worker, number of the send) pairs
Sends == UNION {{<<w, k>> : k \in 1..workers[w].pos} : w \in Spawned}

\* the (vx, vy) pairs of the chunks handed to workers
HandedPairs ==
    UNION {{[vx |-> vx, vy |-> vy] : vx \in Range(workers[w].vx_chunk), vy \in Range(vys)} :
              w \in Spawned}

PairOf(r) == [vx |-> r.vx, vy |-> r.vy]

\* C31: in parallel mode no (vx, vy) position is delivered twice, what was
\* delivered or is in the channel is exactly what was sent, and the returned
\* output holds one result for each pair of the chunks handed to workers.
C31_NoDuplicateNoLoss ==
    n_threads > 1 =>
        /\ \A a, b \in 1..Len(Delivered) :
              a # b => PairOf(Delivered[a]) # PairOf(Delivered[b])
        /\ Len(Delivered) = Cardinality(Sends)
        /\ Returned =>
              /\ channel = <<>>
              /\ Len(results) = Cardinality(Sends)
              /\ {PairOf(results[k]) : k \in 1..Len(results)} = HandedPairs

\* two workers, two vys: four results returned, four sent
C31_Witness ==
    /\ n_threads = 3
    /\ Len(vxs) = 2
    /\ Len(vys) = 2
    /\ Returned
    /\ Cardinality(Sends) = 4
    /\ Len(results) = 4
    /\ Cardinality({PairOf(results[k]) : k \in 1..4}) = 4

\* C32: in the merged Hotspot2D output two points share a label >= 0 only if
\* some quantization puts them in one and the same qualifying cell.
C32_SharedLabelSharedCell ==
    hs_pc = "done" =>
        \A i, j \in 1..Len(hs_points) :
            (hs_out[i] = hs_out[j] /\ hs_out[i] >= 0) =>
                \E k \in 1..4 : InQualifyingCell(k, i) /\ j \in CellMates(k, i)

\* the observations that result k puts into its cluster of local label l
ClusterOf(k, l) ==
    {ObsIds[i] : i \in {j \in 1..Len(results[k].cluster_labels) :
                           results[k].cluster_labels[j] = l}}

\* C33: whatever results the assembler has consumed, the four summary columns
\* have one length; every summary row describes one cluster of one consumed
\* result: its vx and vy are that result's, its members are that cluster's
\* observations, its arc_length is their spread in dt; the cluster ids of the
\* membership table are those of the summary table, each in one summary row.
C33_TablesConsistent ==
    LET cids == tables.cluster_id_builder
        rows == 1..Len(cids)
    IN  /\ Len(tables.vx_builder) = Len(cids)
        /\ Len(tables.vy_builder) = Len(cids)
        /\ Len(tables.arc_length_builder) = Len(cids)
        /\ Len(tables.cluster_id_members_builder) = Len(tables.obs_id_members_builder)
        /\ \A r \in rows :
              \E k \in 1..asm_i :
                 /\ tables.vx_builder[r] = results[k].vx
                 /\ tables.vy_builder[r] = results[k].vy
                 /\ \E l \in Range(results[k].cluster_labels) :
                       /\ l >= 0
                       /\ MembersOf(cids[r]) = ClusterOf(k, l)
                       /\ LET ts == {Dts[o] : o \in ClusterOf(k, l)}
                          IN  tables.arc_length_builder[r] = Max(ts) - Min(ts)
        /\ \A r1, r2 \in rows : cids[r1] = cids[r2] => r1 = r2
        /\ Range(tables.cluster_id_members_builder) = Range(cids)

\* a result with two clusters and a result with one, at different vx
C33_Witness ==
    /\ pc = "done"
    /\ Len(tables.cluster_id_builder) >= 3
    /\ \E r1, r2 \in 1..Len(tables.vx_builder) :
          /\ r2 = r1 + 1
          /\ tables.vx_builder[r1] # tables.vx_builder[r2]
    /\ \E r1, r2 \in 1..Len(tables.vx_builder) :
          /\ r1 # r2
          /\ tables.vx_builder[r1] = tables.vx_builder[r2]
          /\ tables.vy_builder[r1] = tables.vy_builder[r2]
    /\ \E r \in 1..Len(tables.cluster_id_builder) :
          Cardinality(MembersOf(tables.cluster_id_builder[r])) = 2

\* the number of entries of the work list
RECURSIVE QueueLen(_)
QueueLen(queue) ==
    IF queue = <<>> THEN 0 ELSE Cardinality(Head(queue)) + QueueLen(Tail(queue))

\* the points that turn Core in a step
TurnCore == {n \in 1..Len(db_points) : db_labels[n].c # "Core" /\ db_labels'[n].c = "Core"}

\* C34: dbscan terminates: every expansion empties its work list and the scan
\* reaches its end, because an iteration of the expansion that does not
\* shorten the work list is one in which a point turns Core, which a point
\* does once.
C34_Terminates ==
    /\ (db_pc = "expand") ~> (db_queue = <<>>)
    /\ <>(db_pc = "done")
    /\ [][(db_pc = "expand" /\ db_pc' = "expand" /\ QueueLen(db_queue') >= QueueLen(db_queue))
              => Cardinality(TurnCore) = 1]_vars
    /\ [][\A n \in 1..Len(db_points) : db_labels[n].c = "Core" => db_labels'[n] = db_labels[n]]_vars

\* an expansion in which both non-seed points extended the work list has ended
C34_Witness ==
    /\ db_pc = "done"
    /\ db_alg = "DbscanRStar"
    /\ db_points = <<XYPoint(0, 0), XYPoint(1, 0), XYPoint(2, 0)>>
    /\ db_eps = 1
    /\ db_min = 2
    /\ db_out = <<1, 1, 1>>

\* C35: a step of dbscan changes the label of a point only from Undefined to
\* Noise or Core, or from Noise to Border; a Core or Border label stays as it
\* is, with its cluster; when the scan has ended no point is Undefined.
C35_LabelsMonotone ==
    [][/\ \A n \in 1..Len(db_points) :
             \/ db_labels'[n] = db_labels[n]
             \/ db_labels[n] = Undefined /\ db_labels'[n].c \in {"Noise", "Core"}
             \/ db_labels[n] = Noise /\ db_labels'[n].c = "Border"
       /\ db_pc' = "done" => \A n \in 1..Len(db_points) : db_labels'[n] # Undefined]_vars

\* a point that was Noise and became Border, the Core that took it, and a
\* point popped while Undefined that the scan made Noise afterwards
C35_Witness ==
    /\ db_pc = "done"
    /\ db_points = <<XYPoint(0, 0), XYPoint(1, 0), XYPoint(2, 0)>>
    /\ db_min = 3
    /\ db_labels = <<Border(1), Core(1), Noise>>

\* C36: every index a neighbour query returns is the input position of a
\* point within the radius of the queried point, and every such point is
\* returned, whatever the number of points.
C36_IndexIdentifiesPoint ==
    ix_pc = "done" => ix_out = ix_near

\* Is the bookkeeping of the cell consistent?
CellConsistent ==
    /\ \A a, b \in 1..Len(tc_sorted_dts) : a < b => tc_sorted_dts[a] < tc_sorted_dts[b]
    /\ Range(tc_sorted_dts) = DOMAIN tc_dts
    /\ \A dt \in DOMAIN tc_dts :
          /\ tc_dts[dt] \in 1..Len(tc_subtrees)
          /\ tc_subtrees[tc_dts[dt]].dt = dt

\* C37: after any sequence of add_point and add_points calls sorted_dts is
\* strictly increasing, its elements are the keys of dts, and dts maps each
\* dt to the position of the subtree of that dt.
C37_CellConsistent == tc_pc = "build" => CellConsistent

\* the point at a position of the label table, read from the subtree the
\* row was made for
OwnPoint(pos) ==
    XYTPoint(SubtreeAt(TcCell, pos[1]).points[pos[2]].x,
             SubtreeAt(TcCell, pos[1]).points[pos[2]].y,
             tc_sorted_dts[pos[1]])

\* C38: on a cell with consistent bookkeeping find_clusters2 returns, for
\* each cluster, the points that were labelled into it, each with its own
\* coordinates and the dt of its own subtree, in whatever order the dts were
\* first added.
C38_ClustersHoldOwnPoints ==
    (tc_pc = "done" /\ CellConsistent) =>
        /\ ~tc_out.panic
        /\ \A c \in 1..Len(tc_out.clusters) :
              tc_out.clusters[c] =
                  [m \in 1..Len(LabelledPositions(tc_out.labels, c)) |->
                      OwnPoint(LabelledPositions(tc_out.labels, c)[m])]

\* the (cell, place) pairs of a hist2d map that hold the position i
HistPlaces(map, i) ==
    {pl \in UNION {{<<cell, m>> : m \in 1..Len(map[cell])} : cell \in DOMAIN map} :
        map[pl[1]][pl[2]] = i}

\* C39: hist2d maps each distinct quantized cell to the input positions of
\* the points in that cell, in increasing order; every input position is in
\* exactly one list, and the map of an empty input is empty.
C39_Hist2dPartitionsPositions ==
    \A k \in 1..Len(hs_maps) :
        /\ DOMAIN hs_maps[k] = Range(hs_quantized[k])
        /\ \A cell \in DOMAIN hs_maps[k] :
              /\ \A a, b \in 1..Len(hs_maps[k][cell]) :
                    a < b => hs_maps[k][cell][a] < hs_maps[k][cell][b]
              /\ Range(hs_maps[k][cell]) =
                    {i \in 1..Len(hs_points) : hs_quantized[k][i] = cell}
        /\ \A i \in 1..Len(hs_points) : Cardinality(HistPlaces(hs_maps[k], i)) = 1
        /\ hs_points = <<>> => DOMAIN hs_maps[k] = {}

C39_Witness ==
    /\ Len(hs_maps) >= 1
    /\ Len(hs_points) = 4
    /\ \E c1, c2 \in DOMAIN hs_maps[1] :
          /\ hs_maps[1][c1] = <<1, 3>>
          /\ hs_maps[1][c2] = <<2, 4>>

C39_WitnessEmpty ==
    /\ hs_points = <<>>
    /\ Len(hs_maps) = 4
    /\ hs_maps[1] = <<>>

====
